---------------------------- MODULE Spec2Model ----------------------------
(***************************************************************************)
(* rmixer: the supervising thread (ui::App), the real-time JACK callback   *)
(* (audio::engine::ProcessHandler) and the two bounded single-producer /   *)
(* single-consumer ring buffers between them.                              *)
(*                                                                         *)
(* Number representation.  f32 values are kept in fixed point:             *)
(*   - a volume in dB is an integer count of half decibels, so             *)
(*     VOLUME_STEP_DB (0.5 dB) is 1, -60.0 dB is -120 and 12.0 dB is 24;   *)
(*   - a linear gain is an integer count of thousandths, so unity gain     *)
(*     (1.0) is 1000;                                                      *)
(*   - an input sample is an integer; an output sample is the exact        *)
(*     integer  in_s * input_gain * output_gain, i.e. it carries the       *)
(*     scale of two gains (1000 * 1000 for unity * unity).                 *)
(* Indices are 0-based as in the source; sequences are 1-based, so the     *)
(* element of index i is seq[i + 1].                                       *)
(***************************************************************************)
EXTENDS Integers, Sequences, FiniteSets, TLC

(***************************************************************************)
(* Program constants (ipc.rs, engine.rs).                                  *)
(***************************************************************************)
VOLUME_MIN_DB == -120
VOLUME_MAX_DB == 24
VOLUME_STEP_DB == 1
VOLUME_DEFAULT_DB == 0
METER_RING_BUFFER_SIZE == 1024
CONTROL_RING_BUFFER_SIZE == 64
\* ui/app.rs, in seconds
PEAK_HOLD_DURATION == 5

(***************************************************************************)
(* Bounds of the model.                                                    *)
(***************************************************************************)
\* key presses handled by main_loop in one behaviour of Spec
MaxKeys == 2
\* process callbacks invoked by JACK in one behaviour of Spec
MaxBlocks == 2
\* key presses in one behaviour of SpecBurst: one more than overfills the
\* control queue after a first key that moves the selection
BurstKeys == 66
\* key presses and process callbacks in one behaviour of SpecExit
ExitKeys == 1
ExitBlocks == 1
\* send_control calls, process callbacks and the largest channel index sent
\* in one behaviour of SpecClient
\* process callbacks in one behaviour of SpecMeter: enough to overfill the
\* meter queue with three meters a block, and one more
MeterBlocks == 2
ClientSends == 2
\* process callbacks in one behaviour of SpecLive
LiveBlocks == 2
\* process callbacks and seconds of the clock in one behaviour of SpecPeak
PeakBlocks == 3
MaxTime == 6
\* the most input channels and the most port names of a channel in a file
\* that SpecLoad loads, and the process callbacks in one of its behaviours
LoadChannels == 2
LoadPortNames == 3
LoadBlocks == 1
\* send_control calls by the owner of the handle in one behaviour of SpecLoad
LoadSends == 1
ClientBlocks == 1
ClientMaxChannel == 2
\* process callbacks in one behaviour of SpecGain
GainBlocks == 1

(***************************************************************************)
(* Small helpers.                                                          *)
(***************************************************************************)
None == <<>>
Some(v) == <<v>>

Min(a, b) == IF a < b THEN a ELSE b
Max(a, b) == IF a > b THEN a ELSE b
Abs(x) == IF x < 0 THEN -x ELSE x

\* f32::clamp(lo, hi)
Clamp(x, lo, hi) == IF x < lo THEN lo ELSE IF x > hi THEN hi ELSE x

RECURSIVE Pow10(_)
Pow10(n) == IF n <= 0 THEN 1 ELSE 10 * Pow10(n - 1)

\* 1000 * 10^(r/40) for r = 0 .. 39: one 20 dB decade in half-dB steps
Pow10Frac ==
  << 1000, 1059, 1122, 1189, 1259, 1334, 1413, 1496, 1585, 1679,
     1778, 1884, 1995, 2113, 2239, 2371, 2512, 2661, 2818, 2985,
     3162, 3350, 3548, 3758, 3981, 4217, 4467, 4732, 5012, 5309,
     5623, 5957, 6310, 6683, 7079, 7499, 7943, 8414, 8913, 9441 >>

\* MeterData::db_to_linear: 10^(db / 20), in thousandths
db_to_linear(db) ==
  LET e == db \div 40
      t == Pow10Frac[(db % 40) + 1]
  IN  IF e >= 0 THEN t * Pow10(e) ELSE t \div Pow10(-e)

(***************************************************************************)
(* Configuration (config.rs).  A channel is a name, its port names (only   *)
(* their number matters here) and an optional initial volume.              *)
(***************************************************************************)
ChannelConfig(name, ports, volume_db) ==
  [name |-> name, ports |-> ports, volume_db |-> volume_db]

\* ChannelConfig::port_count
port_count(c) == Min(c.ports, 2)

\* faulty variant: validate without the limit of two ports
validate_any_port_count(cfg) ==
  /\ cfg.client_name # ""
  /\ Len(cfg.inputs) > 0
  /\ Len(cfg.outputs) > 0
  /\ \A i \in 1..Len(cfg.inputs) :
        cfg.inputs[i].name # "" /\ cfg.inputs[i].ports # 0
  /\ \A i \in 1..Len(cfg.outputs) :
        cfg.outputs[i].name # "" /\ cfg.outputs[i].ports # 0

\* Config::validate
validate(cfg) ==
  /\ cfg.client_name # ""
  /\ Len(cfg.inputs) > 0
  /\ Len(cfg.outputs) > 0
  /\ \A i \in 1..Len(cfg.inputs) :
        /\ cfg.inputs[i].name # ""
        /\ cfg.inputs[i].ports # 0
        /\ ~(cfg.inputs[i].ports > 2)
  /\ \A i \in 1..Len(cfg.outputs) :
        /\ cfg.outputs[i].name # ""
        /\ cfg.outputs[i].ports # 0
        /\ ~(cfg.outputs[i].ports > 2)

\* The configurations a behaviour may start from.  The first is the one of
\* config.rs's test; the others add initial volumes inside, at the edge of and
\* outside [-60 dB, 12 dB], and the remaining mono/stereo pairings.
Configs ==
  { [client_name |-> "Mixer",
     inputs  |-> << ChannelConfig("Mic", 1, None), ChannelConfig("Music", 2, None) >>,
     outputs |-> << ChannelConfig("Main", 2, None) >>],
    [client_name |-> "Mixer",
     inputs  |-> << ChannelConfig("Mic", 1, Some(23)), ChannelConfig("Music", 2, Some(-12)) >>,
     outputs |-> << ChannelConfig("Main", 2, Some(-130)) >>],
    [client_name |-> "Mixer",
     inputs  |-> << ChannelConfig("Music", 2, Some(30)), ChannelConfig("Mic", 1, None) >>,
     outputs |-> << ChannelConfig("Mono", 1, Some(-119)), ChannelConfig("Main", 2, None) >>] }

(***************************************************************************)
(* Mixer state model (ipc.rs).                                             *)
(***************************************************************************)
\* ChannelState::new, called at time now
ChannelState_new(name, ports, now) ==
  [name |-> name, port_count |-> ports, volume_db |-> VOLUME_DEFAULT_DB,
   muted |-> FALSE, soloed |-> FALSE,
   current_peaks |-> <<0, 0>>, peak_hold |-> <<0, 0>>,
   peak_hold_time |-> <<now, now>>]

\* faulty variant: a hold that expires when exactly the hold duration has elapsed
update_meter_expiring_early(ch, peaks, peak_hold_duration_secs, now) ==
  LET expired(i) == now - ch.peak_hold_time[i] >= peak_hold_duration_secs
      touched(i) == i <= ch.port_count /\ (peaks[i] > ch.peak_hold[i] \/ expired(i))
  IN  [ch EXCEPT
         !.current_peaks  = [i \in 1..2 |-> IF i <= ch.port_count THEN peaks[i] ELSE @[i]],
         !.peak_hold      = [i \in 1..2 |-> IF touched(i) THEN peaks[i] ELSE @[i]],
         !.peak_hold_time = [i \in 1..2 |-> IF touched(i) THEN now ELSE @[i]]]

\* faulty variant: a hold that is only ever raised
update_meter_never_decaying(ch, peaks, peak_hold_duration_secs, now) ==
  LET touched(i) == i <= ch.port_count /\ peaks[i] > ch.peak_hold[i]
  IN  [ch EXCEPT
         !.current_peaks  = [i \in 1..2 |-> IF i <= ch.port_count THEN peaks[i] ELSE @[i]],
         !.peak_hold      = [i \in 1..2 |-> IF touched(i) THEN peaks[i] ELSE @[i]],
         !.peak_hold_time = [i \in 1..2 |-> IF touched(i) THEN now ELSE @[i]]]

\* faulty variant: an expired hold that falls to 0 whatever the new peak
update_meter_decaying_to_zero(ch, peaks, peak_hold_duration_secs, now) ==
  LET expired(i) == now - ch.peak_hold_time[i] > peak_hold_duration_secs
      raised(i)  == i <= ch.port_count /\ peaks[i] > ch.peak_hold[i]
      touched(i) == i <= ch.port_count /\ (peaks[i] > ch.peak_hold[i] \/ expired(i))
  IN  [ch EXCEPT
         !.current_peaks  = [i \in 1..2 |-> IF i <= ch.port_count THEN peaks[i] ELSE @[i]],
         !.peak_hold      = [i \in 1..2 |-> IF raised(i) THEN peaks[i]
                                            ELSE IF touched(i) THEN 0 ELSE @[i]],
         !.peak_hold_time = [i \in 1..2 |-> IF touched(i) THEN now ELSE @[i]]]

\* ChannelState::update_meter, called at time now
update_meter(ch, peaks, peak_hold_duration_secs, now) ==
  LET expired(i) == now - ch.peak_hold_time[i] > peak_hold_duration_secs
      touched(i) == i <= ch.port_count /\ (peaks[i] > ch.peak_hold[i] \/ expired(i))
  IN  [ch EXCEPT
         !.current_peaks  = [i \in 1..2 |-> IF i <= ch.port_count THEN peaks[i] ELSE @[i]],
         !.peak_hold      = [i \in 1..2 |-> IF touched(i) THEN peaks[i] ELSE @[i]],
         !.peak_hold_time = [i \in 1..2 |-> IF touched(i) THEN now ELSE @[i]]]

\* faulty variant: adjust_volume without the clamp
adjust_volume_unclamped(ch, delta_db) ==
  [ch EXCEPT !.volume_db = ch.volume_db + delta_db]

\* ChannelState::adjust_volume
ChannelState_adjust_volume(ch, delta_db) ==
  [ch EXCEPT !.volume_db = Clamp(ch.volume_db + delta_db, VOLUME_MIN_DB, VOLUME_MAX_DB)]

\* faulty variant: a gain that does not look at the mute flag
get_linear_gain_ignoring_mute(ch) == db_to_linear(ch.volume_db)

\* ChannelState::get_linear_gain
get_linear_gain(ch) == IF ch.muted THEN 0 ELSE db_to_linear(ch.volume_db)

\* MixerState::any_input_soloed
any_input_soloed(ms) == \E i \in 1..Len(ms.inputs) : ms.inputs[i].soloed

\* faulty variant: an effective gain that does not look at the solo flags
get_input_effective_gain_ignoring_solo(ms, index) ==
  LET channel == ms.inputs[index + 1]
  IN  IF channel.muted THEN 0 ELSE db_to_linear(channel.volume_db)

\* MixerState::get_input_effective_gain
get_input_effective_gain(ms, index) ==
  LET channel == ms.inputs[index + 1]
  IN  IF channel.muted THEN 0
      ELSE IF any_input_soloed(ms) /\ ~channel.soloed THEN 0
      ELSE db_to_linear(channel.volume_db)

\* ControlMsg
SetInputVolume(channel, volume_db) ==
  [type |-> "SetInputVolume", channel |-> channel, volume_db |-> volume_db]
SetOutputVolume(channel, volume_db) ==
  [type |-> "SetOutputVolume", channel |-> channel, volume_db |-> volume_db]
ToggleInputMute(channel) ==
  [type |-> "ToggleInputMute", channel |-> channel, volume_db |-> 0]
ToggleOutputMute(channel) ==
  [type |-> "ToggleOutputMute", channel |-> channel, volume_db |-> 0]
ToggleInputSolo(channel) ==
  [type |-> "ToggleInputSolo", channel |-> channel, volume_db |-> 0]
Quit == [type |-> "Quit", channel |-> 0, volume_db |-> 0]

\* MeterData
MeterData(channel_index, peaks, ports) ==
  [channel_index |-> channel_index, peaks |-> peaks, port_count |-> ports]

(***************************************************************************)
(* State.                                                                  *)
(***************************************************************************)
VARIABLES
  config,            \* the validated Config handed to App::new
  now,               \* the monotonic clock (Instant::now), in seconds
  \* ---- supervising thread (ui::App) ----
  app_pc,            \* "new" | "run" | "main_loop" | "run_tail" | "exited", and
                     \* App about to be dropped: "drop" (run has called quit and
                     \* returned) | "unwind" (run returned an error early);
                     \* in SpecLoad also "load" (main is about to call
                     \* Config::load) | "rejected" (Config::load returned Err)
  app_mixer_state,   \* App.mixer_state
  selected_channel,  \* App.selected_channel
  selection_type,    \* App.selection_type: "Input" | "Output"
  should_quit,       \* App.should_quit
  main_loop_result,  \* what main_loop returned: "none" | "Ok" | "Err"
  run_result,        \* what App::run returned: "none" | "Ok" | "Err"
  accepted,          \* the messages send_control returned Ok for, oldest first
  sent_ok,           \* send_control calls that returned Ok so far
  sent_full,         \* send_control calls that returned the queue-full error so far
  keyboard,          \* the key held down (auto-repeating), "none" when keys are typed
  keys_left,         \* key presses still to come
  \* ---- shared ----
  control_queue,     \* the control ring buffer, oldest message first
  meter_queue,       \* the meter ring buffer, oldest sample first
  quit_flag,         \* AudioEngine.quit_flag / ProcessHandler.quit_flag
  \* ---- real-time thread (ProcessHandler) ----
  ph_pc,             \* "idle" | "drain" | "quit"; "absent": no engine constructed;
                     \* in SpecPush also "publish" (between the pushes of a block)
  ph_mixer_state,    \* ProcessHandler.mixer_state
  ph_return,         \* what the last process call returned: "none" | "Continue" | "Quit"
  popped,            \* control messages popped so far
  begun_after_quit,  \* whether quit() had returned when the current block began
  in_ports,          \* the input port buffers of the last block
  out_ports,         \* the output port buffers
  push_results,      \* what the meter pushes of the current or last block
                     \* returned, in the order made: "Ok" | "Full"
  blocks_left        \* process callbacks still to come

app_vars == << app_pc, app_mixer_state, selected_channel, selection_type,
               should_quit, main_loop_result, run_result, accepted, sent_ok,
               sent_full, keyboard, keys_left >>
ph_vars  == << ph_pc, ph_mixer_state, ph_return, popped, begun_after_quit,
               in_ports, out_ports, push_results, blocks_left >>
vars     == << config, now, app_vars, control_queue, meter_queue, quit_flag,
               ph_vars >>

(***************************************************************************)
(* The ring buffers (rtrb): push fails when the buffer is full.            *)
(***************************************************************************)
\* faulty variant: a ring buffer that takes one message more than its capacity
send_control_one_more(queue, msg) ==
  IF Len(queue) <= CONTROL_RING_BUFFER_SIZE
  THEN [queue |-> Append(queue, msg), result |-> "Ok"]
  ELSE [queue |-> queue, result |-> "QueueFull"]

\* faulty variant: a full ring buffer that reports the error and overwrites its oldest slot
send_control_overwriting(queue, msg) ==
  IF Len(queue) < CONTROL_RING_BUFFER_SIZE
  THEN [queue |-> Append(queue, msg), result |-> "Ok"]
  ELSE [queue |-> Append(Tail(queue), msg), result |-> "QueueFull"]

\* faulty variant: a buffer that hands out the newest message first
send_control_in_front(queue, msg) ==
  IF Len(queue) < CONTROL_RING_BUFFER_SIZE
  THEN [queue |-> <<msg>> \o queue, result |-> "Ok"]
  ELSE [queue |-> queue, result |-> "QueueFull"]

\* AudioEngine::send_control
send_control(queue, msg) ==
  IF Len(queue) < CONTROL_RING_BUFFER_SIZE
  THEN [queue |-> Append(queue, msg), result |-> "Ok"]
  ELSE [queue |-> queue, result |-> "QueueFull"]

\* faulty variant: a full meter buffer that makes room by dropping its oldest sample
meter_push_overwriting(queue, meter) ==
  IF Len(queue) < METER_RING_BUFFER_SIZE THEN Append(queue, meter)
  ELSE Append(Tail(queue), meter)

\* let _ = self.meter_producer.push(meter)
meter_push(queue, meter) ==
  IF Len(queue) < METER_RING_BUFFER_SIZE THEN Append(queue, meter) ELSE queue

\* the pushes of one block, in the order process makes them
RECURSIVE publish(_, _)
publish(queue, meters) ==
  IF meters = <<>> THEN queue
  ELSE publish(meter_push(queue, Head(meters)), Tail(meters))

\* what the pushes of one block return, in the order process makes them
publish_results(queue, meters) ==
  [k \in 1..Len(meters) |->
     IF Len(queue) + k <= METER_RING_BUFFER_SIZE THEN "Ok" ELSE "Full"]

(***************************************************************************)
(* The supervising thread.  A handler works on a record of App's fields,   *)
(* the control queue, the handler's Result and the send_control calls it   *)
(* made.                                                                   *)
(***************************************************************************)
AppState ==
  [mixer_state |-> app_mixer_state, selected_channel |-> selected_channel,
   selection_type |-> selection_type, should_quit |-> should_quit,
   queue |-> control_queue, meters |-> meter_queue, quit_flag |-> quit_flag,
   result |-> "Ok", accepted |-> accepted, sent_ok |-> sent_ok,
   sent_full |-> sent_full]

\* self.audio_engine.send_control(msg)?
SendOrReturn(a, msg) ==
  LET r == send_control(a.queue, msg)
  IN  [a EXCEPT !.queue = r.queue,
                !.accepted = IF r.result = "Ok" THEN Append(@, msg) ELSE @,
                !.sent_ok = IF r.result = "Ok" THEN @ + 1 ELSE @,
                !.sent_full = IF r.result = "Ok" THEN @ ELSE @ + 1,
                !.result = IF r.result = "Ok" THEN @ ELSE "Err"]

\* let _ = audio_engine.send_control(msg)
SendAndIgnore(a, msg) ==
  LET r == send_control(a.queue, msg)
  IN  [a EXCEPT !.queue = r.queue,
                !.accepted = IF r.result = "Ok" THEN Append(@, msg) ELSE @,
                !.sent_ok = IF r.result = "Ok" THEN @ + 1 ELSE @,
                !.sent_full = IF r.result = "Ok" THEN @ ELSE @ + 1]

\* App::new, the channel states built from the configuration
AppChannel(c, t) ==
  LET state == ChannelState_new(c.name, port_count(c), t)
  IN  IF c.volume_db # None
      THEN [state EXCEPT !.volume_db = Clamp(c.volume_db[1], -120, 24)]
      ELSE state

\* AudioEngine::new, the channel states built from the configuration
EngineChannel(c, t) == ChannelState_new(c.name, port_count(c), t)

\* App::new, the initial volume levels sent to the audio thread
RECURSIVE SendInputVolumes(_, _, _)
SendInputVolumes(a, cfg, i) ==
  IF i >= Len(cfg.inputs) THEN a
  ELSE LET c == cfg.inputs[i + 1]
       IN  SendInputVolumes(
             IF c.volume_db # None
             THEN SendAndIgnore(a, SetInputVolume(i, Clamp(c.volume_db[1], -120, 24)))
             ELSE a,
             cfg, i + 1)

RECURSIVE SendOutputVolumes(_, _, _)
SendOutputVolumes(a, cfg, i) ==
  IF i >= Len(cfg.outputs) THEN a
  ELSE LET c == cfg.outputs[i + 1]
       IN  SendOutputVolumes(
             IF c.volume_db # None
             THEN SendAndIgnore(a, SetOutputVolume(i, Clamp(c.volume_db[1], -120, 24)))
             ELSE a,
             cfg, i + 1)

\* App::process_meter_updates, the body of its loop for the popped sample
process_meter(a, meter, t) ==
  LET num_inputs == Len(a.mixer_state.inputs)
      output_idx == meter.channel_index - num_inputs
  IN  IF meter.channel_index < num_inputs
      THEN [a EXCEPT !.mixer_state.inputs[meter.channel_index + 1] =
                       update_meter(@, meter.peaks, PEAK_HOLD_DURATION, t)]
      ELSE IF output_idx < Len(a.mixer_state.outputs)
      THEN [a EXCEPT !.mixer_state.outputs[output_idx + 1] =
                       update_meter(@, meter.peaks, PEAK_HOLD_DURATION, t)]
      ELSE a

\* faulty variant: the loop of process_meter_updates taking the newest sample first
RECURSIVE process_meters_newest_first(_, _, _)
process_meters_newest_first(a, n, t) ==
  IF n = 0 \/ a.meters = <<>> THEN a
  ELSE process_meters_newest_first(
         process_meter([a EXCEPT !.meters = SubSeq(@, 1, Len(@) - 1)],
                       a.meters[Len(a.meters)], t),
         n - 1, t)

\* at most n iterations of the loop of process_meter_updates: each pops the
\* oldest sample, and the loop ends when the queue is empty (n iterations
\* are n \div 2 of them and then the rest, which keeps the evaluation of a
\* full queue shallow)
RECURSIVE process_meters(_, _, _)
process_meters(a, n, t) ==
  IF n = 0 \/ a.meters = <<>> THEN a
  ELSE IF n = 1
  THEN process_meter([a EXCEPT !.meters = Tail(@)], Head(a.meters), t)
  ELSE process_meters(process_meters(a, n \div 2, t), n - n \div 2, t)

\* App::process_meter_updates: the loop runs until the meter queue is empty
process_meter_updates(a, t) == process_meters(a, Len(a.meters), t)

\* App::select_previous
select_previous(a) ==
  LET max_idx == IF a.selection_type = "Input" THEN Len(a.mixer_state.inputs)
                 ELSE Len(a.mixer_state.outputs)
  IN  IF a.selected_channel > 0
      THEN [a EXCEPT !.selected_channel = @ - 1]
      ELSE IF max_idx > 0
      THEN IF a.selection_type = "Input"
           THEN IF a.mixer_state.outputs # <<>>
                THEN [a EXCEPT !.selection_type = "Output",
                               !.selected_channel = Len(a.mixer_state.outputs) - 1]
                ELSE [a EXCEPT !.selected_channel = max_idx - 1]
           ELSE IF a.mixer_state.inputs # <<>>
                THEN [a EXCEPT !.selection_type = "Input",
                               !.selected_channel = Len(a.mixer_state.inputs) - 1]
                ELSE [a EXCEPT !.selected_channel = max_idx - 1]
      ELSE a

\* faulty variant: select_next crossing to the other section with the index kept
select_next_keeping_index(a) ==
  LET max_idx == IF a.selection_type = "Input" THEN Len(a.mixer_state.inputs)
                 ELSE Len(a.mixer_state.outputs)
  IN  IF a.selected_channel + 1 < max_idx
      THEN [a EXCEPT !.selected_channel = @ + 1]
      ELSE IF a.selection_type = "Input"
           THEN IF a.mixer_state.outputs # <<>>
                THEN [a EXCEPT !.selection_type = "Output"]
                ELSE [a EXCEPT !.selected_channel = 0]
           ELSE IF a.mixer_state.inputs # <<>>
                THEN [a EXCEPT !.selection_type = "Input"]
                ELSE [a EXCEPT !.selected_channel = 0]

\* App::select_next
select_next(a) ==
  LET max_idx == IF a.selection_type = "Input" THEN Len(a.mixer_state.inputs)
                 ELSE Len(a.mixer_state.outputs)
  IN  IF a.selected_channel + 1 < max_idx
      THEN [a EXCEPT !.selected_channel = @ + 1]
      ELSE IF a.selection_type = "Input"
           THEN IF a.mixer_state.outputs # <<>>
                THEN [a EXCEPT !.selection_type = "Output", !.selected_channel = 0]
                ELSE [a EXCEPT !.selected_channel = 0]
           ELSE IF a.mixer_state.inputs # <<>>
                THEN [a EXCEPT !.selection_type = "Input", !.selected_channel = 0]
                ELSE [a EXCEPT !.selected_channel = 0]

\* App::toggle_section
toggle_section(a) ==
  IF a.selection_type = "Input"
  THEN IF a.mixer_state.outputs # <<>>
       THEN [a EXCEPT !.selection_type = "Output", !.selected_channel = 0]
       ELSE a
  ELSE IF a.mixer_state.inputs # <<>>
       THEN [a EXCEPT !.selection_type = "Input", !.selected_channel = 0]
       ELSE a

\* App::adjust_volume
adjust_volume(a, delta) ==
  LET i == a.selected_channel + 1
  IN  IF a.selection_type = "Input"
      THEN IF a.selected_channel < Len(a.mixer_state.inputs)
           THEN LET channel == ChannelState_adjust_volume(a.mixer_state.inputs[i], delta)
                IN  SendOrReturn([a EXCEPT !.mixer_state.inputs[i] = channel],
                                 SetInputVolume(a.selected_channel, channel.volume_db))
           ELSE a
      ELSE IF a.selected_channel < Len(a.mixer_state.outputs)
           THEN LET channel == ChannelState_adjust_volume(a.mixer_state.outputs[i], delta)
                IN  SendOrReturn([a EXCEPT !.mixer_state.outputs[i] = channel],
                                 SetOutputVolume(a.selected_channel, channel.volume_db))
           ELSE a

\* App::toggle_mute
toggle_mute(a) ==
  LET i == a.selected_channel + 1
  IN  IF a.selection_type = "Input"
      THEN IF a.selected_channel < Len(a.mixer_state.inputs)
           THEN SendOrReturn([a EXCEPT !.mixer_state.inputs[i].muted = ~@],
                             ToggleInputMute(a.selected_channel))
           ELSE a
      ELSE IF a.selected_channel < Len(a.mixer_state.outputs)
           THEN SendOrReturn([a EXCEPT !.mixer_state.outputs[i].muted = ~@],
                             ToggleOutputMute(a.selected_channel))
           ELSE a

\* faulty variant: solo toggled on the selected channel of either section
toggle_solo_either_section(a) ==
  LET i == a.selected_channel + 1
  IN  IF a.selection_type = "Input"
      THEN IF a.selected_channel < Len(a.mixer_state.inputs)
           THEN SendOrReturn([a EXCEPT !.mixer_state.inputs[i].soloed = ~@],
                             ToggleInputSolo(a.selected_channel))
           ELSE a
      ELSE IF a.selected_channel < Len(a.mixer_state.outputs)
           THEN SendOrReturn([a EXCEPT !.mixer_state.outputs[i].soloed = ~@],
                             ToggleInputSolo(a.selected_channel))
           ELSE a

\* App::toggle_solo
toggle_solo(a) ==
  LET i == a.selected_channel + 1
  IN  IF a.selection_type = "Input"
      THEN IF a.selected_channel < Len(a.mixer_state.inputs)
           THEN SendOrReturn([a EXCEPT !.mixer_state.inputs[i].soloed = ~@],
                             ToggleInputSolo(a.selected_channel))
           ELSE a
      ELSE a

\* App::reset_volume_to_zero
reset_volume_to_zero(a) ==
  LET i == a.selected_channel + 1
  IN  IF a.selection_type = "Input"
      THEN IF a.selected_channel < Len(a.mixer_state.inputs)
           THEN SendOrReturn([a EXCEPT !.mixer_state.inputs[i].volume_db = 0],
                             SetInputVolume(a.selected_channel, 0))
           ELSE a
      ELSE IF a.selected_channel < Len(a.mixer_state.outputs)
           THEN SendOrReturn([a EXCEPT !.mixer_state.outputs[i].volume_db = 0],
                             SetOutputVolume(a.selected_channel, 0))
           ELSE a

\* KeyCode, as far as handle_key tells the codes apart
KeyCodes == { "q", "Esc", "Left", "Right", "Up", "Down", "m", "s", "0", "Tab", "other" }

\* App::handle_key
handle_key(a, code) ==
  CASE code \in { "q", "Esc" } -> [a EXCEPT !.should_quit = TRUE]
    [] code = "Left"  -> select_previous(a)
    [] code = "Right" -> select_next(a)
    [] code = "Up"    -> adjust_volume(a, VOLUME_STEP_DB)
    [] code = "Down"  -> adjust_volume(a, -VOLUME_STEP_DB)
    [] code = "m"     -> toggle_mute(a)
    [] code = "s"     -> toggle_solo(a)
    [] code = "0"     -> reset_volume_to_zero(a)
    [] code = "Tab"   -> toggle_section(a)
    [] OTHER          -> a

\* faulty variant: quit that only sends the Quit message
quit_by_message_only(a) == SendAndIgnore(a, Quit)

\* AudioEngine::quit: the flag is stored, then the Quit message sent if there is room
quit(a) == SendAndIgnore([a EXCEPT !.quit_flag = TRUE], Quit)

(***************************************************************************)
(* The real-time thread: ProcessHandler.                                   *)
(***************************************************************************)
\* faulty variant: no bounds checks, an index past the end lands on the last channel
apply_control_unchecked(ms, msg) ==
  LET i == Min(msg.channel, Len(ms.inputs) - 1) + 1
      o == Min(msg.channel, Len(ms.outputs) - 1) + 1
  IN  CASE msg.type = "SetInputVolume"   -> [ms EXCEPT !.inputs[i].volume_db = msg.volume_db]
        [] msg.type = "SetOutputVolume"  -> [ms EXCEPT !.outputs[o].volume_db = msg.volume_db]
        [] msg.type = "ToggleInputMute"  -> [ms EXCEPT !.inputs[i].muted = ~@]
        [] msg.type = "ToggleOutputMute" -> [ms EXCEPT !.outputs[o].muted = ~@]
        [] msg.type = "ToggleInputSolo"  -> [ms EXCEPT !.inputs[i].soloed = ~@]
        [] OTHER -> ms

\* faulty variant: setting the volume of an input also lifts its mute
apply_control_unmuting(ms, msg) ==
  CASE msg.type = "SetInputVolume" ->
         IF msg.channel < Len(ms.inputs)
         THEN [ms EXCEPT !.inputs[msg.channel + 1].volume_db = msg.volume_db,
                         !.inputs[msg.channel + 1].muted = FALSE]
         ELSE ms
    [] msg.type = "SetOutputVolume" ->
         IF msg.channel < Len(ms.outputs)
         THEN [ms EXCEPT !.outputs[msg.channel + 1].volume_db = msg.volume_db]
         ELSE ms
    [] msg.type = "ToggleInputMute" ->
         IF msg.channel < Len(ms.inputs)
         THEN [ms EXCEPT !.inputs[msg.channel + 1].muted = ~@]
         ELSE ms
    [] msg.type = "ToggleOutputMute" ->
         IF msg.channel < Len(ms.outputs)
         THEN [ms EXCEPT !.outputs[msg.channel + 1].muted = ~@]
         ELSE ms
    [] msg.type = "ToggleInputSolo" ->
         IF msg.channel < Len(ms.inputs)
         THEN [ms EXCEPT !.inputs[msg.channel + 1].soloed = ~@]
         ELSE ms
    [] OTHER -> ms

\* process_control_messages, the match on one popped message
apply_control(ms, msg) ==
  CASE msg.type = "SetInputVolume" ->
         IF msg.channel < Len(ms.inputs)
         THEN [ms EXCEPT !.inputs[msg.channel + 1].volume_db = msg.volume_db]
         ELSE ms
    [] msg.type = "SetOutputVolume" ->
         IF msg.channel < Len(ms.outputs)
         THEN [ms EXCEPT !.outputs[msg.channel + 1].volume_db = msg.volume_db]
         ELSE ms
    [] msg.type = "ToggleInputMute" ->
         IF msg.channel < Len(ms.inputs)
         THEN [ms EXCEPT !.inputs[msg.channel + 1].muted = ~@]
         ELSE ms
    [] msg.type = "ToggleOutputMute" ->
         IF msg.channel < Len(ms.outputs)
         THEN [ms EXCEPT !.outputs[msg.channel + 1].muted = ~@]
         ELSE ms
    [] msg.type = "ToggleInputSolo" ->
         IF msg.channel < Len(ms.inputs)
         THEN [ms EXCEPT !.inputs[msg.channel + 1].soloed = ~@]
         ELSE ms
    [] OTHER -> ms

\* ProcessHandler::compute_peak
RECURSIVE compute_peak(_)
compute_peak(samples) ==
  IF samples = <<>> THEN 0
  ELSE Max(compute_peak(SubSeq(samples, 1, Len(samples) - 1)),
           Abs(samples[Len(samples)]))

\* ProcessHandler.input_port_counts, output_port_counts
input_port_counts  == [i \in 1..Len(config.inputs)  |-> port_count(config.inputs[i])]
output_port_counts == [i \in 1..Len(config.outputs) |-> port_count(config.outputs[i])]

\* faulty variant: one input port registered per channel
NumInputPorts_one_per_channel == Len(config.inputs)

\* AudioEngine::new registers one port per configured port name
NumInputPorts ==
  LET RECURSIVE sum(_)
      sum(i) == IF i = 0 THEN 0 ELSE config.inputs[i].ports + sum(i - 1)
  IN  sum(Len(config.inputs))
NumOutputPorts ==
  LET RECURSIVE sum(_)
      sum(i) == IF i = 0 THEN 0 ELSE config.outputs[i].ports + sum(i - 1)
  IN  sum(Len(config.outputs))

\* faulty variant: the output buffers left as the caller handed them over
keep_outputs(outs) == outs

\* process: "first, zero all output buffers"
zero_outputs(outs) == [k \in DOMAIN outs |-> [i \in DOMAIN outs[k] |-> 0]]

\* faulty variant: the solo override left out
input_gain_without_solo(input_state, any_soloed) ==
  IF input_state.muted THEN 0 ELSE db_to_linear(input_state.volume_db)

\* faulty variant: solo checked before mute: a soloed channel plays though muted
input_gain_solo_first(input_state, any_soloed) ==
  IF any_soloed
  THEN IF input_state.soloed THEN db_to_linear(input_state.volume_db) ELSE 0
  ELSE IF input_state.muted THEN 0 ELSE db_to_linear(input_state.volume_db)

\* process: the effective input gain of one input channel
input_gain(input_state, any_soloed) ==
  IF input_state.muted THEN 0
  ELSE IF any_soloed /\ ~input_state.soloed THEN 0
  ELSE db_to_linear(input_state.volume_db)

\* faulty variant: a mono input mixed into the port of its own index only
use_matching_port(in_port_count, p, out_p) == p = out_p

\* faulty variant: every input port mixed into every output port
use_every_input(in_port_count, p, out_p) == TRUE

\* faulty variant: the right port of a stereo input folded into output port 0
use_right_in_port_zero(in_port_count, p, out_p) ==
  IF in_port_count = 1 THEN TRUE
  ELSE p = out_p \/ (p = 1 /\ out_p = 0)

\* process: which input port maps to this output port
use_this_input(in_port_count, p, out_p) ==
  IF in_port_count = 1 THEN TRUE
  ELSE p = out_p \/ (p = 0 /\ out_p >= in_port_count)

\* process: *out_s += in_s * combined_gain over the zipped buffers
accumulate(out_samples, in_samples, combined_gain) ==
  [i \in DOMAIN out_samples |->
     IF i <= Len(in_samples) THEN out_samples[i] + in_samples[i] * combined_gain
     ELSE out_samples[i]]

\* process: "mix this input to all outputs", the loops over the output
\* channels from out_ch_idx on and their ports from out_p on; out_port_idx runs
RECURSIVE mix_to_outputs(_, _, _, _, _, _, _, _, _)
mix_to_outputs(outs, ms, in_samples, in_port_count, p, in_gain, out_ch_idx, out_p, out_port_idx) ==
  IF out_ch_idx >= Len(output_port_counts) THEN outs
  ELSE IF out_p >= output_port_counts[out_ch_idx + 1]
  THEN mix_to_outputs(outs, ms, in_samples, in_port_count, p, in_gain,
                      out_ch_idx + 1, 0, out_port_idx)
  ELSE LET output_gain   == get_linear_gain(ms.outputs[out_ch_idx + 1])
           combined_gain == in_gain * output_gain
           mixed == IF use_this_input(in_port_count, p, out_p)
                    THEN [outs EXCEPT ![out_port_idx + 1] =
                                        accumulate(@, in_samples, combined_gain)]
                    ELSE outs
       IN  mix_to_outputs(mixed, ms, in_samples, in_port_count, p, in_gain,
                          out_ch_idx, out_p + 1, out_port_idx + 1)

\* faulty variant: input peaks measured after the input gain
RECURSIVE process_inputs_metering_post_gain(_, _, _, _, _, _)
process_inputs_metering_post_gain(b, ms, ins, any_soloed, ch_idx, p) ==
  IF ch_idx >= Len(input_port_counts) THEN b
  ELSE IF p >= input_port_counts[ch_idx + 1]
  THEN process_inputs_metering_post_gain(
         [b EXCEPT !.meters = Append(@, MeterData(ch_idx, b.peaks,
                                                  input_port_counts[ch_idx + 1])),
                   !.peaks = <<0, 0>>],
         ms, ins, any_soloed, ch_idx + 1, 0)
  ELSE LET in_samples == ins[b.in_port_idx + 1]
           in_gain    == input_gain(ms.inputs[ch_idx + 1], any_soloed)
       IN  process_inputs_metering_post_gain(
             [b EXCEPT !.peaks[p + 1] = (compute_peak(in_samples) * in_gain) \div 1000,
                       !.outs = mix_to_outputs(@, ms, in_samples,
                                               input_port_counts[ch_idx + 1], p,
                                               in_gain, 0, 0, 0),
                       !.in_port_idx = @ + 1],
             ms, ins, any_soloed, ch_idx, p + 1)

\* process: "process inputs and mix to outputs", the loops over the input
\* channels from ch_idx on and their ports from p on.  b holds the locals:
\* outs (the output buffers), in_port_idx, peaks, meters (the MeterData built)
RECURSIVE process_inputs(_, _, _, _, _, _)
process_inputs(b, ms, ins, any_soloed, ch_idx, p) ==
  IF ch_idx >= Len(input_port_counts) THEN b
  ELSE IF p >= input_port_counts[ch_idx + 1]
  THEN process_inputs(
         [b EXCEPT !.meters = Append(@, MeterData(ch_idx, b.peaks,
                                                  input_port_counts[ch_idx + 1])),
                   !.peaks = <<0, 0>>],
         ms, ins, any_soloed, ch_idx + 1, 0)
  ELSE LET in_samples == ins[b.in_port_idx + 1]
           in_gain    == input_gain(ms.inputs[ch_idx + 1], any_soloed)
       IN  process_inputs(
             [b EXCEPT !.peaks[p + 1] = compute_peak(in_samples),
                       !.outs = mix_to_outputs(@, ms, in_samples,
                                               input_port_counts[ch_idx + 1], p,
                                               in_gain, 0, 0, 0),
                       !.in_port_idx = @ + 1],
             ms, ins, any_soloed, ch_idx, p + 1)

\* faulty variant: output meters numbered from 0, like the input meters
RECURSIVE output_meters_from_zero(_, _, _, _)
output_meters_from_zero(b, num_inputs, ch_idx, p) ==
  IF ch_idx >= Len(output_port_counts) THEN b
  ELSE IF p >= output_port_counts[ch_idx + 1]
  THEN output_meters_from_zero(
         [b EXCEPT !.meters = Append(@, MeterData(ch_idx, b.peaks,
                                                  output_port_counts[ch_idx + 1])),
                   !.peaks = <<0, 0>>],
         num_inputs, ch_idx + 1, 0)
  ELSE output_meters_from_zero(
         [b EXCEPT !.peaks[p + 1] = compute_peak(b.outs[b.out_port_idx + 1]),
                   !.out_port_idx = @ + 1],
         num_inputs, ch_idx, p + 1)

\* process: "calculate and send output meters", the loops over the output
\* channels from ch_idx on and their ports from p on; b.out_port_idx runs
RECURSIVE output_meters(_, _, _, _)
output_meters(b, num_inputs, ch_idx, p) ==
  IF ch_idx >= Len(output_port_counts) THEN b
  ELSE IF p >= output_port_counts[ch_idx + 1]
  THEN output_meters(
         [b EXCEPT !.meters = Append(@, MeterData(num_inputs + ch_idx, b.peaks,
                                                  output_port_counts[ch_idx + 1])),
                   !.peaks = <<0, 0>>],
         num_inputs, ch_idx + 1, 0)
  ELSE output_meters(
         [b EXCEPT !.peaks[p + 1] = compute_peak(b.outs[b.out_port_idx + 1]),
                   !.out_port_idx = @ + 1],
         num_inputs, ch_idx, p + 1)

\* process, from "let any_soloed" to the last meter built: the output buffers
\* it leaves and the MeterData it pushes, in order
mix_block(ms, ins, outs) ==
  LET any_soloed == any_input_soloed(ms)
      b0 == [outs |-> zero_outputs(outs), in_port_idx |-> 0, out_port_idx |-> 0,
             peaks |-> <<0, 0>>, meters |-> <<>>]
      b1 == process_inputs(b0, ms, ins, any_soloed, 0, 0)
  IN  output_meters(b1, Len(ms.inputs), 0, 0)

(***************************************************************************)
(* The audio server's side of a block: the input buffers it hands over     *)
(* (every port the same length) and whatever the output buffers held.      *)
(***************************************************************************)
Silence      == [k \in 1..NumInputPorts |-> <<0, 0>>]
\* every port its own signal, so that a port routed wrongly shows in the sums
Signal       == [k \in 1..NumInputPorts |-> <<2^(k - 1), -3 * 2^(k - 1)>>]
InputBuffers == { Silence, Signal }
StaleBlock   == <<7, -7>>

(***************************************************************************)
(* Initial state: App::new has built its MixerState and AudioEngine::new   *)
(* has returned (the client is active, both ring buffers are empty); the   *)
(* initial volumes are not sent yet.                                       *)
(***************************************************************************)
InitWith(keys, blocks) ==
  /\ config \in { cfg \in Configs : validate(cfg) }
  /\ now = 0
  /\ app_pc = "new"
  /\ app_mixer_state =
       [inputs  |-> [i \in 1..Len(config.inputs)  |-> AppChannel(config.inputs[i], 0)],
        outputs |-> [i \in 1..Len(config.outputs) |-> AppChannel(config.outputs[i], 0)]]
  /\ selected_channel = 0
  /\ selection_type = "Input"
  /\ should_quit = FALSE
  /\ main_loop_result = "none"
  /\ run_result = "none"
  /\ accepted = <<>>
  /\ sent_ok = 0
  /\ sent_full = 0
  /\ keyboard = "none"
  /\ keys_left = keys
  /\ control_queue = <<>>
  /\ meter_queue = <<>>
  /\ quit_flag = FALSE
  /\ ph_pc = "idle"
  /\ ph_mixer_state =
       [inputs  |-> [i \in 1..Len(config.inputs)  |-> EngineChannel(config.inputs[i], 0)],
        outputs |-> [i \in 1..Len(config.outputs) |-> EngineChannel(config.outputs[i], 0)]]
  /\ ph_return = "none"
  /\ popped = 0
  /\ begun_after_quit = FALSE
  /\ in_ports = Silence
  /\ out_ports = [k \in 1..NumOutputPorts |-> StaleBlock]
  /\ push_results = <<>>
  /\ blocks_left = blocks

Init == InitWith(MaxKeys, MaxBlocks)

(***************************************************************************)
(* Steps of the supervising thread.                                        *)
(***************************************************************************)
\* what a handler leaves in App and in the control queue
AppBecomes(a) ==
  /\ app_mixer_state' = a.mixer_state
  /\ selected_channel' = a.selected_channel
  /\ selection_type' = a.selection_type
  /\ should_quit' = a.should_quit
  /\ control_queue' = a.queue
  /\ meter_queue' = a.meters
  /\ quit_flag' = a.quit_flag
  /\ accepted' = a.accepted
  /\ sent_ok' = a.sent_ok
  /\ sent_full' = a.sent_full

\* App::new, after AudioEngine::new: send the initial volume levels
SendInitialVolumes ==
  /\ app_pc = "new"
  /\ AppBecomes(SendOutputVolumes(SendInputVolumes(AppState, config, 0), config, 0))
  /\ app_pc' = "run"
  /\ UNCHANGED << config, now, main_loop_result, run_result, keyboard, keys_left,
                  ph_vars >>

\* App::run, terminal setup: an error of enable_raw_mode, execute! or
\* Terminal::new is returned at once, and App goes out of scope
RunSetup(ok) ==
  /\ app_pc = "run"
  /\ app_pc' = IF ok THEN "main_loop" ELSE "unwind"
  /\ run_result' = IF ok THEN run_result ELSE "Err"
  /\ UNCHANGED << config, now, app_mixer_state, selected_channel, selection_type,
                  should_quit, main_loop_result, accepted, sent_ok, sent_full,
                  keyboard, keys_left, control_queue, meter_queue, quit_flag,
                  ph_vars >>

\* main_loop, one iteration: the meter updates, then the key read, if any
\* (code "none": the poll timed out); an Err of handle_key is returned
MainLoopIteration(code) ==
  /\ app_pc = "main_loop"
  /\ ~should_quit
  /\ code # "none" => keys_left > 0
  /\ LET a == process_meter_updates(AppState, now)
         b == IF code = "none" THEN a ELSE handle_key(a, code)
     IN  /\ AppBecomes(b)
         /\ app_pc' = IF b.result = "Ok" THEN "main_loop" ELSE "run_tail"
         /\ main_loop_result' = IF b.result = "Ok" THEN main_loop_result ELSE "Err"
  /\ keys_left' = IF code = "none" THEN keys_left ELSE keys_left - 1
  /\ UNCHANGED << config, now, run_result, keyboard, ph_vars >>

\* main_loop, one iteration in which terminal.draw, event::poll or
\* event::read fails after the meter updates: the error is returned
MainLoopFails ==
  /\ app_pc = "main_loop"
  /\ ~should_quit
  /\ AppBecomes(process_meter_updates(AppState, now))
  /\ app_pc' = "run_tail"
  /\ main_loop_result' = "Err"
  /\ UNCHANGED << config, now, run_result, keyboard, keys_left, ph_vars >>

\* main_loop: while !self.should_quit ends, Ok(()) is returned
MainLoopReturn ==
  /\ app_pc = "main_loop"
  /\ should_quit
  /\ app_pc' = "run_tail"
  /\ main_loop_result' = "Ok"
  /\ UNCHANGED << config, now, app_mixer_state, selected_channel, selection_type,
                  should_quit, run_result, accepted, sent_ok, sent_full, keyboard,
                  keys_left, control_queue, meter_queue, quit_flag, ph_vars >>

\* App::run after main_loop, an error restoring the terminal
\* (disable_raw_mode, execute!, show_cursor): it is returned at once, before
\* save_volumes and quit(), and App goes out of scope
RunRestoreFails ==
  /\ app_pc = "run_tail"
  /\ app_pc' = "unwind"
  /\ run_result' = "Err"
  /\ UNCHANGED << config, now, app_mixer_state, selected_channel, selection_type,
                  should_quit, main_loop_result, accepted, sent_ok, sent_full,
                  keyboard, keys_left, control_queue, meter_queue, quit_flag,
                  ph_vars >>

\* App::run after main_loop, the terminal restored: save_volumes,
\* self.audio_engine.quit(), and main_loop's result returned
RunQuit ==
  /\ app_pc = "run_tail"
  /\ AppBecomes(quit(AppState))
  /\ app_pc' = "drop"
  /\ run_result' = main_loop_result
  /\ UNCHANGED << config, now, main_loop_result, keyboard, keys_left, ph_vars >>

\* faulty variant: App dropped without a Drop impl that calls quit()
DropWithoutQuit ==
  /\ app_pc \in { "drop", "unwind" }
  /\ app_pc' = "exited"
  /\ UNCHANGED << config, now, app_mixer_state, selected_channel, selection_type,
                  should_quit, main_loop_result, run_result, accepted, sent_ok,
                  sent_full, keyboard, keys_left, control_queue, meter_queue,
                  quit_flag, ph_vars >>

\* impl Drop for AudioEngine, as App goes out of scope: quit() (again, if run
\* got as far as its own call)
DropEngine ==
  /\ app_pc \in { "drop", "unwind" }
  /\ AppBecomes(quit(AppState))
  /\ app_pc' = "exited"
  /\ UNCHANGED << config, now, main_loop_result, run_result, keyboard, keys_left,
                  ph_vars >>

(***************************************************************************)
(* Steps of the real-time thread.  The ring buffer pops and pushes and the *)
(* load of the quit flag are the steps other threads can see; the mixing   *)
(* between them works on the handler's own state.                          *)
(***************************************************************************)
\* JACK invokes process with this block's input buffers
BeginProcess(ins) ==
  /\ ph_pc = "idle"
  /\ app_pc # "exited"
  /\ blocks_left > 0
  /\ ph_pc' = "drain"
  /\ in_ports' = ins
  /\ begun_after_quit' = (app_pc \in { "drop", "exited" })
  /\ push_results' = <<>>
  /\ blocks_left' = blocks_left - 1
  /\ UNCHANGED << config, now, app_vars, control_queue, meter_queue, quit_flag,
                  ph_mixer_state, ph_return, popped, out_ports >>

\* faulty variant: a drain that stores into the quit flag whether the popped
\* message was Quit
DrainControlStoringEither ==
  /\ ph_pc = "drain"
  /\ control_queue # <<>>
  /\ LET msg == Head(control_queue)
     IN  /\ ph_mixer_state' = apply_control(ph_mixer_state, msg)
         /\ quit_flag' = (msg.type = "Quit")
  /\ control_queue' = Tail(control_queue)
  /\ popped' = popped + 1
  /\ UNCHANGED << config, now, app_vars, meter_queue, ph_pc, ph_return,
                  begun_after_quit, in_ports, out_ports, push_results, blocks_left >>

\* process_control_messages: one message popped and applied
DrainControl ==
  /\ ph_pc = "drain"
  /\ control_queue # <<>>
  /\ LET msg == Head(control_queue)
     IN  /\ ph_mixer_state' = apply_control(ph_mixer_state, msg)
         /\ quit_flag' = IF msg.type = "Quit" THEN TRUE ELSE quit_flag
  /\ control_queue' = Tail(control_queue)
  /\ popped' = popped + 1
  /\ UNCHANGED << config, now, app_vars, meter_queue, ph_pc, ph_return,
                  begun_after_quit, in_ports, out_ports, push_results, blocks_left >>

\* faulty variant: a callback that gives up the block when it cannot report
MixBlockUnlessMeterFull ==
  /\ ph_pc = "drain"
  /\ control_queue = <<>>
  /\ IF quit_flag
     THEN /\ ph_pc' = "quit"
          /\ ph_return' = "Quit"
          /\ UNCHANGED << out_ports, meter_queue, push_results >>
     ELSE LET b == mix_block(ph_mixer_state, in_ports, out_ports)
          IN  /\ out_ports' = IF Len(meter_queue) < METER_RING_BUFFER_SIZE
                              THEN b.outs ELSE zero_outputs(out_ports)
              /\ meter_queue' = publish(meter_queue, b.meters)
              /\ push_results' = publish_results(meter_queue, b.meters)
              /\ ph_pc' = "idle"
              /\ ph_return' = "Continue"
  /\ UNCHANGED << config, now, app_vars, control_queue, quit_flag, ph_mixer_state,
                  popped, begun_after_quit, in_ports, blocks_left >>

\* faulty variant: a callback that mixes without emptying the control queue
MixBlockBeforeDrained ==
  /\ ph_pc = "drain"
  /\ IF quit_flag
     THEN /\ ph_pc' = "quit"
          /\ ph_return' = "Quit"
          /\ UNCHANGED << out_ports, meter_queue, push_results >>
     ELSE LET b == mix_block(ph_mixer_state, in_ports, out_ports)
          IN  /\ out_ports' = b.outs
              /\ meter_queue' = publish(meter_queue, b.meters)
              /\ push_results' = publish_results(meter_queue, b.meters)
              /\ ph_pc' = "idle"
              /\ ph_return' = "Continue"
  /\ UNCHANGED << config, now, app_vars, control_queue, quit_flag, ph_mixer_state,
                  popped, begun_after_quit, in_ports, blocks_left >>

\* faulty variant: a callback that clears the output buffers before it looks
\* at the quit flag
MixBlockZeroingFirst ==
  /\ ph_pc = "drain"
  /\ control_queue = <<>>
  /\ IF quit_flag
     THEN /\ ph_pc' = "quit"
          /\ ph_return' = "Quit"
          /\ out_ports' = zero_outputs(out_ports)
          /\ UNCHANGED << meter_queue, push_results >>
     ELSE LET b == mix_block(ph_mixer_state, in_ports, out_ports)
          IN  /\ out_ports' = b.outs
              /\ meter_queue' = publish(meter_queue, b.meters)
              /\ push_results' = publish_results(meter_queue, b.meters)
              /\ ph_pc' = "idle"
              /\ ph_return' = "Continue"
  /\ UNCHANGED << config, now, app_vars, control_queue, quit_flag, ph_mixer_state,
                  popped, begun_after_quit, in_ports, blocks_left >>

\* process_control_messages finds the queue empty; the quit flag is loaded and,
\* unless it is set, the block is mixed, its MeterData pushed (dropped when
\* the meter queue is full) and Control::Continue returned
MixBlock ==
  /\ ph_pc = "drain"
  /\ control_queue = <<>>
  /\ IF quit_flag
     THEN /\ ph_pc' = "quit"
          /\ ph_return' = "Quit"
          /\ UNCHANGED << out_ports, meter_queue, push_results >>
     ELSE LET b == mix_block(ph_mixer_state, in_ports, out_ports)
          IN  /\ out_ports' = b.outs
              /\ meter_queue' = publish(meter_queue, b.meters)
              /\ push_results' = publish_results(meter_queue, b.meters)
              /\ ph_pc' = "idle"
              /\ ph_return' = "Continue"
  /\ UNCHANGED << config, now, app_vars, control_queue, quit_flag, ph_mixer_state,
                  popped, begun_after_quit, in_ports, blocks_left >>

(***************************************************************************)
(* The whole program, for a few key presses and blocks, the terminal       *)
(* working.                                                                *)
(***************************************************************************)
Next ==
  \/ SendInitialVolumes
  \/ RunSetup(TRUE)
  \/ \E code \in KeyCodes \cup { "none" } : MainLoopIteration(code)
  \/ MainLoopReturn
  \/ RunQuit
  \/ DropEngine
  \/ \E ins \in InputBuffers : BeginProcess(ins)
  \/ DrainControl
  \/ MixBlock

Spec == Init /\ [][Next]_vars

(***************************************************************************)
(* The ways out of App::run: as above, and any terminal call may fail.     *)
(***************************************************************************)
InitExit == InitWith(ExitKeys, ExitBlocks)

NextExit ==
  \/ SendInitialVolumes
  \/ \E ok \in BOOLEAN : RunSetup(ok)
  \/ \E code \in KeyCodes \cup { "none" } : MainLoopIteration(code)
  \/ MainLoopFails
  \/ MainLoopReturn
  \/ RunRestoreFails
  \/ RunQuit
  \/ DropEngine
  \/ \E ins \in InputBuffers : BeginProcess(ins)
  \/ DrainControl
  \/ MixBlock

SpecExit == InitExit /\ [][NextExit]_vars

(***************************************************************************)
(* The engine under any owner of the AudioEngine handle: send_control is   *)
(* public and takes any ControlMsg, also one whose channel index no        *)
(* channel has.                                                            *)
(***************************************************************************)
ClientMessages ==
  { SetInputVolume(c, 7) : c \in 0..ClientMaxChannel } \cup
  { SetOutputVolume(c, -7) : c \in 0..ClientMaxChannel } \cup
  { ToggleInputMute(c) : c \in 0..ClientMaxChannel } \cup
  { ToggleOutputMute(c) : c \in 0..ClientMaxChannel } \cup
  { ToggleInputSolo(c) : c \in 0..ClientMaxChannel }

InitClient == InitWith(ClientSends, ClientBlocks)

\* the owner of the handle calls send_control(msg)
ClientSend(msg) ==
  /\ app_pc = "new"
  /\ keys_left > 0
  /\ AppBecomes(SendAndIgnore(AppState, msg))
  /\ keys_left' = keys_left - 1
  /\ UNCHANGED << config, now, app_pc, main_loop_result, run_result, keyboard,
                  ph_vars >>

NextClient ==
  \/ \E msg \in ClientMessages : ClientSend(msg)
  \/ BeginProcess(Signal)
  \/ DrainControl
  \/ MixBlock

SpecClient == InitClient /\ [][NextClient]_vars

(***************************************************************************)
(* A supervisor that stalls: the callbacks go on, one block after another, *)
(* while the supervisor thread takes no step until the meter queue is full. *)
(***************************************************************************)
\* the whole blocks whose samples fit into the empty meter queue
FillBlocks ==
  METER_RING_BUFFER_SIZE \div (Len(config.inputs) + Len(config.outputs))

\* the callbacks fill the meter queue and go on for MeterBlocks blocks more
InitMeter == InitWith(0, FillBlocks + MeterBlocks)

\* the meter queue is at its capacity
MeterQueueFull == Len(meter_queue) = METER_RING_BUFFER_SIZE

\* a frame of main_loop, no key pressed, once the meter queue is full
StalledFrame == MeterQueueFull /\ MainLoopIteration("none")

NextMeter ==
  \/ MeterQueueFull /\ SendInitialVolumes
  \/ MeterQueueFull /\ RunSetup(TRUE)
  \/ StalledFrame
  \/ BeginProcess(Signal)
  \/ DrainControl
  \/ MixBlock

SpecMeter == InitMeter /\ [][NextMeter]_vars

(***************************************************************************)
(* The meter pushes of a block as steps of their own: the supervisor's     *)
(* frame may pop between two of them.  As in SpecMeter the supervisor is   *)
(* stalled until the meter queue is full.                                  *)
(***************************************************************************)
\* the MeterData the current block builds, in the order it pushes them
BlockMeters == mix_block(ph_mixer_state, in_ports, out_ports).meters

\* process from the end of the drain to its first push: the quit flag is
\* loaded and, unless it is set, the block is mixed
MixBeforePush ==
  /\ ph_pc = "drain"
  /\ control_queue = <<>>
  /\ IF quit_flag
     THEN /\ ph_pc' = "quit"
          /\ ph_return' = "Quit"
          /\ UNCHANGED out_ports
     ELSE /\ out_ports' = mix_block(ph_mixer_state, in_ports, out_ports).outs
          /\ ph_pc' = "publish"
          /\ UNCHANGED ph_return
  /\ UNCHANGED << config, now, app_vars, control_queue, meter_queue, quit_flag,
                  ph_mixer_state, popped, begun_after_quit, in_ports,
                  push_results, blocks_left >>

\* faulty variant: once a sample of the block was dropped, the later ones are
\* dropped too
PushMeterUnlessDropped ==
  /\ ph_pc = "publish"
  /\ LET k == Len(push_results) + 1
         room == Len(meter_queue) < METER_RING_BUFFER_SIZE
                 /\ \A j \in 1..Len(push_results) : push_results[j] = "Ok"
     IN  /\ meter_queue' = IF room THEN Append(meter_queue, BlockMeters[k])
                           ELSE meter_queue
         /\ push_results' = Append(push_results, IF room THEN "Ok" ELSE "Full")
         /\ ph_pc' = IF k = Len(BlockMeters) THEN "idle" ELSE "publish"
         /\ ph_return' = IF k = Len(BlockMeters) THEN "Continue" ELSE ph_return
  /\ UNCHANGED << config, now, app_vars, control_queue, quit_flag, ph_mixer_state,
                  popped, begun_after_quit, in_ports, out_ports, blocks_left >>

\* process: one let _ = self.meter_producer.push(meter); after the last one
\* Control::Continue is returned
PushMeter ==
  /\ ph_pc = "publish"
  /\ LET k == Len(push_results) + 1
         room == Len(meter_queue) < METER_RING_BUFFER_SIZE
     IN  /\ meter_queue' = meter_push(meter_queue, BlockMeters[k])
         /\ push_results' = Append(push_results, IF room THEN "Ok" ELSE "Full")
         /\ ph_pc' = IF k = Len(BlockMeters) THEN "idle" ELSE "publish"
         /\ ph_return' = IF k = Len(BlockMeters) THEN "Continue" ELSE ph_return
  /\ UNCHANGED << config, now, app_vars, control_queue, quit_flag, ph_mixer_state,
                  popped, begun_after_quit, in_ports, out_ports, blocks_left >>

InitPush == InitMeter

NextPush ==
  \/ MeterQueueFull /\ SendInitialVolumes
  \/ MeterQueueFull /\ RunSetup(TRUE)
  \/ StalledFrame
  \/ BeginProcess(Signal)
  \/ DrainControl
  \/ MixBeforePush
  \/ PushMeter

SpecPush == InitPush /\ [][NextPush]_vars

(***************************************************************************)
(* The gain of the inputs for every MixerState: the engine starts a block  *)
(* with its input channels in any combination of mute, solo and volume     *)
(* that control messages can have left.                                    *)
(***************************************************************************)
\* volumes of an input channel: the ends of the range, the default and one between
GainVolumes == { VOLUME_MIN_DB, -13, VOLUME_DEFAULT_DB, VOLUME_MAX_DB }

\* the input channels of the configuration in every combination of settings
GainInputs ==
  { inputs \in [1..Len(config.inputs) ->
                  { [EngineChannel(c, 0) EXCEPT !.muted = m, !.soloed = s, !.volume_db = v] :
                      c \in { config.inputs[i] : i \in 1..Len(config.inputs) },
                      m \in BOOLEAN, s \in BOOLEAN, v \in GainVolumes }] :
      \A i \in 1..Len(config.inputs) : inputs[i].name = config.inputs[i].name }

InitGain ==
  /\ config \in { cfg \in Configs : validate(cfg) }
  /\ now = 0
  /\ app_pc = "new"
  /\ app_mixer_state =
       [inputs  |-> [i \in 1..Len(config.inputs)  |-> AppChannel(config.inputs[i], 0)],
        outputs |-> [i \in 1..Len(config.outputs) |-> AppChannel(config.outputs[i], 0)]]
  /\ selected_channel = 0
  /\ selection_type = "Input"
  /\ should_quit = FALSE
  /\ main_loop_result = "none"
  /\ run_result = "none"
  /\ accepted = <<>>
  /\ sent_ok = 0
  /\ sent_full = 0
  /\ keyboard = "none"
  /\ keys_left = 0
  /\ control_queue = <<>>
  /\ meter_queue = <<>>
  /\ quit_flag = FALSE
  /\ ph_pc = "idle"
  /\ ph_mixer_state \in
       { [inputs  |-> inputs,
          outputs |-> [i \in 1..Len(config.outputs) |-> EngineChannel(config.outputs[i], 0)]] :
         inputs \in GainInputs }
  /\ ph_return = "none"
  /\ popped = 0
  /\ begun_after_quit = FALSE
  /\ in_ports = Silence
  /\ out_ports = [k \in 1..NumOutputPorts |-> StaleBlock]
  /\ push_results = <<>>
  /\ blocks_left = GainBlocks

NextGain ==
  \/ BeginProcess(Signal)
  \/ MixBlock

SpecGain == InitGain /\ [][NextGain]_vars

(***************************************************************************)
(* A burst of key presses: after at most one key that moves the selection, *)
(* one key is held down and auto-repeats, faster than the blocks come      *)
(* (a single block is invoked).                                            *)
(***************************************************************************)
InitBurst == InitWith(BurstKeys, 1)

\* a key goes down and stays down
HoldKey(code) ==
  /\ app_pc = "main_loop"
  /\ keyboard = "none"
  /\ keyboard' = code
  /\ UNCHANGED << config, now, app_pc, app_mixer_state, selected_channel,
                  selection_type, should_quit, main_loop_result, run_result,
                  accepted, sent_ok, sent_full, keys_left, control_queue,
                  meter_queue, quit_flag, ph_vars >>

\* a single key typed before the burst
TypeFirstKey(code) ==
  /\ keyboard = "none"
  /\ keys_left = BurstKeys
  /\ MainLoopIteration(code)

\* the next repeat of the held key
RepeatKey ==
  /\ keyboard # "none"
  /\ MainLoopIteration(keyboard)

NextBurst ==
  \/ SendInitialVolumes
  \/ RunSetup(TRUE)
  \/ \E code \in { "Left", "Right", "Tab" } : TypeFirstKey(code)
  \/ \E code \in KeyCodes : HoldKey(code)
  \/ RepeatKey
  \/ MainLoopReturn
  \/ RunQuit
  \/ DropEngine
  \/ BeginProcess(Silence)
  \/ DrainControl
  \/ MixBlock

SpecBurst == InitBurst /\ [][NextBurst]_vars

(***************************************************************************)
(* A supervisor that never stops sending, and an audio thread that always  *)
(* gets to run: a callback that has begun takes its next step, a pop of    *)
(* the control queue that either yields a message or ends the drain.       *)
(* The history variables (accepted, sent_ok, sent_full, popped) are not    *)
(* kept in this specification.                                             *)
(***************************************************************************)
InitLive == InitWith(0, LiveBlocks)

\* the message the supervisor repeats
HeldMessage == ToggleInputMute(0)

\* send_control(msg), by the owner of the handle, any number of times
LiveSend ==
  /\ app_pc = "new"
  /\ control_queue' = send_control(control_queue, HeldMessage).queue
  /\ UNCHANGED << config, now, app_vars, meter_queue, quit_flag, ph_vars >>

\* process_control_messages: one message popped and applied
LiveDrain ==
  /\ ph_pc = "drain"
  /\ control_queue # <<>>
  /\ LET msg == Head(control_queue)
     IN  /\ ph_mixer_state' = apply_control(ph_mixer_state, msg)
         /\ quit_flag' = IF msg.type = "Quit" THEN TRUE ELSE quit_flag
  /\ control_queue' = Tail(control_queue)
  /\ UNCHANGED << config, now, app_vars, meter_queue, ph_pc, ph_return, popped,
                  begun_after_quit, in_ports, out_ports, push_results, blocks_left >>

NextLive ==
  \/ LiveSend
  \/ BeginProcess(Signal)
  \/ LiveDrain
  \/ MixBlock

\* the callback has popped the last message: MixBlock is enabled
QueueDrained == ph_pc = "drain" /\ control_queue = <<>>

\* the audio thread is scheduled: weak fairness of LiveDrain and of MixBlock,
\* the latter written by its enabling condition, which every MixBlock step
\* ends ([]<>~ENABLED <<MixBlock>>_vars \/ []<><<MixBlock>>_vars)
SpecLive ==
  InitLive /\ [][NextLive]_vars /\ WF_vars(LiveDrain) /\ []<>~QueueDrained

(***************************************************************************)
(* A peak followed by silence, while the clock runs: the first block       *)
(* carries the signal, the later ones are silent; the frames of main_loop  *)
(* come at any time, no key is pressed.                                    *)
(***************************************************************************)
InitPeak == InitWith(0, PeakBlocks)

\* a second of Instant::now() passes
Tick ==
  /\ now < MaxTime
  /\ now' = now + 1
  /\ UNCHANGED << config, app_vars, control_queue, meter_queue, quit_flag, ph_vars >>

\* the input buffers of the next block
PeakThenSilence == IF blocks_left = PeakBlocks THEN Signal ELSE Silence

NextPeak ==
  \/ SendInitialVolumes
  \/ RunSetup(TRUE)
  \/ MainLoopIteration("none")
  \/ Tick
  \/ BeginProcess(PeakThenSilence)
  \/ DrainControl
  \/ MixBlock

SpecPeak == InitPeak /\ [][NextPeak]_vars

(***************************************************************************)
(* The program from main on: Config::load parses the file and validates    *)
(* what it parsed; only a configuration it returns reaches App::new and    *)
(* AudioEngine::new.  The files hold any channel lists over a few names,   *)
(* port lists and volumes.                                                 *)
(***************************************************************************)
\* what serde_yaml can deliver for one channel
ParsedChannels ==
  { ChannelConfig("Mic", ports, volume_db) :
      ports \in 0..LoadPortNames, volume_db \in { None, Some(30) } } \cup
  { ChannelConfig("", 1, None) }

ParsedChannelLists(n) == UNION { [1..k -> ParsedChannels] : k \in 0..n }

\* what serde_yaml can deliver for the file
ParsedConfigs ==
  { [client_name |-> client_name, inputs |-> inputs, outputs |-> outputs] :
      client_name \in { "", "Mixer" },
      inputs \in ParsedChannelLists(LoadChannels),
      outputs \in ParsedChannelLists(1) }

\* control messages the owner of the handle sends: for the first channel of
\* a kind and for an index no configuration here has a channel at
LoadMessages ==
  { SetInputVolume(c, 7) : c \in { 0, LoadChannels } } \cup
  { ToggleOutputMute(c) : c \in { 0, LoadChannels } }

\* main has the parsed file in hand; nothing is constructed yet
InitLoad ==
  /\ config \in ParsedConfigs
  /\ now = 0
  /\ app_pc = "load"
  /\ app_mixer_state = [inputs |-> <<>>, outputs |-> <<>>]
  /\ selected_channel = 0
  /\ selection_type = "Input"
  /\ should_quit = FALSE
  /\ main_loop_result = "none"
  /\ run_result = "none"
  /\ accepted = <<>>
  /\ sent_ok = 0
  /\ sent_full = 0
  /\ keyboard = "none"
  /\ keys_left = LoadSends
  /\ control_queue = <<>>
  /\ meter_queue = <<>>
  /\ quit_flag = FALSE
  /\ ph_pc = "absent"
  /\ ph_mixer_state = [inputs |-> <<>>, outputs |-> <<>>]
  /\ ph_return = "none"
  /\ popped = 0
  /\ begun_after_quit = FALSE
  /\ in_ports = <<>>
  /\ out_ports = <<>>
  /\ push_results = <<>>
  /\ blocks_left = LoadBlocks

\* Config::load: validate()? returns the error to main, which returns it;
\* otherwise main calls App::new, which builds its MixerState and calls
\* AudioEngine::new (ports registered, MixerState built, client activated)
LoadConfig ==
  /\ app_pc = "load"
  /\ IF validate(config)
     THEN /\ app_pc' = "new"
          /\ app_mixer_state' =
               [inputs  |-> [i \in 1..Len(config.inputs)  |-> AppChannel(config.inputs[i], now)],
                outputs |-> [i \in 1..Len(config.outputs) |-> AppChannel(config.outputs[i], now)]]
          /\ ph_pc' = "idle"
          /\ ph_mixer_state' =
               [inputs  |-> [i \in 1..Len(config.inputs)  |-> EngineChannel(config.inputs[i], now)],
                outputs |-> [i \in 1..Len(config.outputs) |-> EngineChannel(config.outputs[i], now)]]
          /\ in_ports' = Silence
          /\ out_ports' = [k \in 1..NumOutputPorts |-> StaleBlock]
     ELSE /\ app_pc' = "rejected"
          /\ UNCHANGED << app_mixer_state, ph_pc, ph_mixer_state, in_ports, out_ports >>
  /\ UNCHANGED << config, now, selected_channel, selection_type, should_quit,
                  main_loop_result, run_result, accepted, sent_ok, sent_full,
                  keyboard, keys_left, control_queue, meter_queue, quit_flag,
                  ph_return, popped, begun_after_quit, push_results, blocks_left >>

NextLoad ==
  \/ LoadConfig
  \/ \E msg \in LoadMessages : ClientSend(msg)
  \/ SendInitialVolumes
  \/ RunSetup(TRUE)
  \/ MainLoopIteration("none")
  \/ BeginProcess(Signal)
  \/ DrainControl
  \/ MixBlock

SpecLoad == InitLoad /\ [][NextLoad]_vars

(***************************************************************************)
(* Claims.  What a block should leave in the output buffers is written     *)
(* here from the routing rule, independently of the loops of process:      *)
(* the ports of a channel follow those of the channels before it; a mono   *)
(* input feeds every output port, a stereo input's port p feeds output     *)
(* port p.                                                                 *)
(***************************************************************************)
\* the sum of the values of a function of finite domain
Sum(f) ==
  LET RECURSIVE go(_)
      go(T) == IF T = {} THEN 0
               ELSE LET x == CHOOSE y \in T : TRUE IN f[x] + go(T \ {x})
  IN  go(DOMAIN f)

InputChannels  == 0..(Len(ph_mixer_state.inputs) - 1)
OutputChannels == 0..(Len(ph_mixer_state.outputs) - 1)
InputState(ch)  == ph_mixer_state.inputs[ch + 1]
OutputState(ch) == ph_mixer_state.outputs[ch + 1]
PortsOf(state) == 0..(state.port_count - 1)

InBuffer(ch, p) ==
  in_ports[Sum([c \in { d \in InputChannels : d < ch } |-> InputState(c).port_count])
           + p + 1]
OutBuffer(ch, p) ==
  out_ports[Sum([c \in { d \in OutputChannels : d < ch } |-> OutputState(c).port_count])
            + p + 1]

Feeds(ch, p, out_p) == InputState(ch).port_count = 1 \/ p = out_p

OutputGain(out_ch) ==
  IF OutputState(out_ch).muted THEN 0 ELSE db_to_linear(OutputState(out_ch).volume_db)

\* the samples of output port out_p of out_ch when input channel ch weighs W[ch]
MixOf(W, out_ch, out_p) ==
  [i \in 1..Len(OutBuffer(out_ch, out_p)) |->
     Sum([x \in { y \in InputChannels \X {0, 1} :
                    y[2] \in PortsOf(InputState(y[1])) /\ Feeds(y[1], y[2], out_p) }
            |-> InBuffer(x[1], x[2])[i] * W[x[1]] * OutputGain(out_ch)])]

\* the last process call returned Control::Continue and no other has begun
BlockDone == ph_pc = "idle" /\ ph_return = "Continue"

Audible(ch) ==
  /\ compute_peak(InBuffer(ch, 0)) > 0
  /\ \E o \in OutputChannels : OutputGain(o) > 0

AllChannelStates ==
  { app_mixer_state.inputs[i]  : i \in 1..Len(app_mixer_state.inputs) } \cup
  { app_mixer_state.outputs[i] : i \in 1..Len(app_mixer_state.outputs) } \cup
  { ph_mixer_state.inputs[i]   : i \in 1..Len(ph_mixer_state.inputs) } \cup
  { ph_mixer_state.outputs[i]  : i \in 1..Len(ph_mixer_state.outputs) }

C2_SoloSilencesOthers ==
  (BlockDone /\ any_input_soloed(ph_mixer_state)) =>
    \A o \in OutputChannels : \A q \in PortsOf(OutputState(o)) :
       OutBuffer(o, q) =
         MixOf([ch \in InputChannels |->
                  IF ~InputState(ch).soloed THEN 0
                  ELSE IF InputState(ch).muted THEN 0
                  ELSE db_to_linear(InputState(ch).volume_db)],
               o, q)

\* C2 witness: a block was mixed with one input soloed and heard, and another,
\* unmuted and not soloed, carrying a signal.
C2_Witness ==
  /\ BlockDone
  /\ \E a, b \in InputChannels :
        /\ InputState(a).soloed /\ ~InputState(a).muted /\ Audible(a)
        /\ ~InputState(b).soloed /\ ~InputState(b).muted /\ Audible(b)
        /\ \E o \in OutputChannels : compute_peak(OutBuffer(o, 0)) > 0

\* C3: after a block that returned Continue, the outputs are the mix of the
\* unmuted inputs alone, each at its own gain unless solo silences it: a muted
\* input adds nothing, soloed or not.
C3_MuteDominatesSolo ==
  BlockDone =>
    \A o \in OutputChannels : \A q \in PortsOf(OutputState(o)) :
       OutBuffer(o, q) =
         MixOf([ch \in InputChannels |->
                  IF InputState(ch).muted THEN 0
                  ELSE IF any_input_soloed(ph_mixer_state) /\ ~InputState(ch).soloed THEN 0
                  ELSE db_to_linear(InputState(ch).volume_db)],
               o, q)

\* C3 witness: a block was mixed with an input both muted and soloed that
\* carried a signal.
C3_Witness ==
  /\ BlockDone
  /\ \E a \in InputChannels :
        InputState(a).muted /\ InputState(a).soloed /\ Audible(a)

\* C4: after a block that returned Continue every output sample is the sum,
\* over the input ports routed to its port, of sample * input effective gain *
\* output gain; nothing the buffer held before remains.
C4_OutputIsSum ==
  BlockDone =>
    \A o \in OutputChannels : \A q \in PortsOf(OutputState(o)) :
       OutBuffer(o, q) =
         [i \in 1..Len(OutBuffer(o, q)) |->
            Sum([x \in { y \in InputChannels \X {0, 1} :
                           /\ y[2] \in PortsOf(InputState(y[1]))
                           /\ use_this_input(InputState(y[1]).port_count, y[2], q) }
                   |-> InBuffer(x[1], x[2])[i]
                       * get_input_effective_gain(ph_mixer_state, x[1])
                       * get_linear_gain(OutputState(o))])]

\* C4 witness: a second block has been mixed, two inputs were summed into one
\* port, and the sum differs from what the buffer held before the first block.
C4_Witness ==
  /\ BlockDone
  /\ blocks_left <= MaxBlocks - 2
  /\ \E a, b \in InputChannels :
        /\ a # b
        /\ get_input_effective_gain(ph_mixer_state, a) > 0 /\ Audible(a)
        /\ get_input_effective_gain(ph_mixer_state, b) > 0 /\ Audible(b)
  /\ \A k \in DOMAIN out_ports : out_ports[k] # StaleBlock

\* the input channels other than ch add nothing: gain 0 or no signal
OnlyContributor(ch) ==
  \A c \in InputChannels \ {ch} :
     \/ get_input_effective_gain(ph_mixer_state, c) = 0
     \/ \A p \in PortsOf(InputState(c)) : compute_peak(InBuffer(c, p)) = 0

Scaled(samples, gain) == [i \in DOMAIN samples |-> samples[i] * gain]

\* the mono input ch and the stereo output o are both unmuted at 0 dB
UnityPair(ch, o) ==
  /\ InputState(ch).port_count = 1 /\ OutputState(o).port_count = 2
  /\ ~InputState(ch).muted /\ InputState(ch).volume_db = 0
  /\ ~OutputState(o).muted /\ OutputState(o).volume_db = 0

\* every output port holds the one port of the mono input ch at its gain
FansOut(ch) ==
  \A o \in OutputChannels : \A q \in PortsOf(OutputState(o)) :
     OutBuffer(o, q) =
       Scaled(InBuffer(ch, 0),
              get_input_effective_gain(ph_mixer_state, ch) * OutputGain(o))

PeaksEqual(ch, o) ==
  \A q \in {0, 1} :
     compute_peak(OutBuffer(o, q)) = compute_peak(InBuffer(ch, 0)) * 1000 * 1000

\* C5 as stated: after a block that returned Continue in which a mono input is
\* the only contributing one, every output port of every output channel holds
\* that input's samples times the two gains; with the input and a stereo output
\* unmuted at 0 dB, the peak of both output ports is the input's peak.
C5_AsStated ==
  BlockDone =>
    \A ch \in InputChannels :
       (InputState(ch).port_count = 1 /\ OnlyContributor(ch)) =>
          /\ FansOut(ch)
          /\ \A o \in OutputChannels : UnityPair(ch, o) => PeaksEqual(ch, o)

\* C5: as stated, the peaks being equal when moreover no other input is soloed
\* (a soloed input silences the mono one even if it contributes nothing itself).
C5_MonoFanOut ==
  BlockDone =>
    \A ch \in InputChannels :
       (InputState(ch).port_count = 1 /\ OnlyContributor(ch)) =>
          /\ FansOut(ch)
          /\ \A o \in OutputChannels :
                ( /\ UnityPair(ch, o)
                  /\ \A c \in InputChannels \ {ch} : ~InputState(c).soloed )
                => PeaksEqual(ch, o)

\* C5 witness: a mono input at 0 dB carried a signal into a stereo output at
\* 0 dB while the other input, unsoloed, was muted and carried a signal too.
C5_Witness ==
  /\ BlockDone
  /\ \E ch \in InputChannels : \E o \in OutputChannels :
        /\ UnityPair(ch, o) /\ OnlyContributor(ch)
        /\ \A c \in InputChannels \ {ch} :
              ~InputState(c).soloed /\ compute_peak(InBuffer(c, 0)) > 0
        /\ compute_peak(InBuffer(ch, 0)) > 0
        /\ PeaksEqual(ch, o)

\* C6: after a block that returned Continue, port q of a stereo output holds,
\* of every stereo input, port q alone (and of every mono input its one port):
\* no stereo input port is added to the other output port.
C6_NoCrossFeed ==
  BlockDone =>
    \A o \in OutputChannels :
       OutputState(o).port_count = 2 =>
          \A q \in {0, 1} :
             OutBuffer(o, q) =
               [i \in 1..Len(OutBuffer(o, q)) |->
                  Sum([ch \in InputChannels |->
                         InBuffer(ch, IF InputState(ch).port_count = 2 THEN q ELSE 0)[i]
                         * get_input_effective_gain(ph_mixer_state, ch)
                         * OutputGain(o)])]

\* C6 witness: a stereo input was heard on a stereo output, its two ports
\* carrying different signals and the two output ports differing.
C6_Witness ==
  /\ BlockDone
  /\ \E ch \in InputChannels : \E o \in OutputChannels :
        /\ InputState(ch).port_count = 2 /\ OutputState(o).port_count = 2
        /\ get_input_effective_gain(ph_mixer_state, ch) > 0 /\ OutputGain(o) > 0
        /\ InBuffer(ch, 0) # InBuffer(ch, 1)
        /\ OutBuffer(o, 0) # OutBuffer(o, 1)

\* the send_control calls of a step, and those of them that returned Ok
CallsMade == (sent_ok' + sent_full') - (sent_ok + sent_full)
CallsOk   == sent_ok' - sent_ok

\* C7: a send_control call returns Ok exactly when fewer than 64 messages are
\* pending, and otherwise the queue-full error (of the calls of one handler
\* those succeed that still find room); as long as the engine has drained
\* nothing, the first 64 calls succeed and every later one fails.
C7_SendControl ==
  /\ [](popped = 0 => sent_ok = Min(sent_ok + sent_full, CONTROL_RING_BUFFER_SIZE))
  /\ [][CallsMade > 0 =>
          CallsOk = Min(CallsMade, CONTROL_RING_BUFFER_SIZE - Len(control_queue))]_vars

\* C7 witness: 64 calls have succeeded and the 65th has failed, nothing drained.
C7_Witness ==
  /\ popped = 0
  /\ sent_ok = CONTROL_RING_BUFFER_SIZE
  /\ sent_full = 1
  /\ Len(control_queue) = CONTROL_RING_BUFFER_SIZE

\* C8: a step in which a send_control call fails leaves the engine's
\* MixerState alone and the pending messages as they were, in order, followed
\* only by the messages of the calls that succeeded; the engine never gets to
\* pop a message that was not accepted.
C8_FailedSendNotEnqueued ==
  /\ [](Len(control_queue) + popped = sent_ok)
  /\ [][sent_full' > sent_full =>
          /\ ph_mixer_state' = ph_mixer_state
          /\ Len(control_queue') = Len(control_queue) + CallsOk
          /\ SubSeq(control_queue', 1, Len(control_queue)) = control_queue]_vars

\* C8 witness: after a failed call the engine has drained every accepted
\* message and finished a block.
C8_Witness ==
  /\ sent_full > 0
  /\ popped = sent_ok
  /\ control_queue = <<>>
  /\ BlockDone

\* C9 as stated: a frame of the main loop in which the send_control call of a
\* user command fails leaves the loop running: should_quit false, no error
\* returned by main_loop, the next frame to come.
C9_AsStated ==
  [][(app_pc = "main_loop" /\ sent_full' > sent_full) =>
       (app_pc' = "main_loop" /\ ~should_quit' /\ main_loop_result' = "none")]_vars

SameSettings(a, e) ==
  a.volume_db = e.volume_db /\ a.muted = e.muted /\ a.soloed = e.soloed

\* C10 as stated: once App::new has returned, whenever the control queue is
\* empty and the engine is not in its drain, having finished one, every channel
\* has the same volume_db, muted and soloed in the engine's MixerState as in
\* the supervisor's.
C10_AsStated ==
  (app_pc # "new" /\ control_queue = <<>> /\ ph_pc # "drain" /\ ph_return # "none") =>
     /\ \A i \in 1..Len(app_mixer_state.inputs) :
           SameSettings(app_mixer_state.inputs[i], ph_mixer_state.inputs[i])
     /\ \A i \in 1..Len(app_mixer_state.outputs) :
           SameSettings(app_mixer_state.outputs[i], ph_mixer_state.outputs[i])

\* the engine's MixerState as AudioEngine::new built it
EngineStart ==
  [inputs  |-> [i \in 1..Len(config.inputs)  |-> EngineChannel(config.inputs[i], 0)],
   outputs |-> [i \in 1..Len(config.outputs) |-> EngineChannel(config.outputs[i], 0)]]

\* the messages applied one after the other, the first first
RECURSIVE ApplyAll(_, _)
ApplyAll(ms, msgs) ==
  IF msgs = <<>> THEN ms ELSE ApplyAll(apply_control(ms, Head(msgs)), Tail(msgs))

\* the accepted SetInputVolume messages for channel c the engine has popped
PoppedInputVolumes(c) ==
  { k \in 1..popped : accepted[k].type = "SetInputVolume" /\ accepted[k].channel = c }

\* C11: the engine has popped the first messages send_control accepted, the
\* pending ones are the rest, in the order of acceptance, and its MixerState
\* is what applying the popped ones in that order, each once, gives; the
\* volume of an input is that of the last SetInputVolume popped for it.
C11_FifoExactlyOnce ==
  /\ popped <= Len(accepted)
  /\ control_queue = SubSeq(accepted, popped + 1, Len(accepted))
  /\ ph_mixer_state = ApplyAll(EngineStart, SubSeq(accepted, 1, popped))
  /\ \A c \in InputChannels :
        PoppedInputVolumes(c) # {} =>
          InputState(c).volume_db =
            accepted[CHOOSE k \in PoppedInputVolumes(c) :
                       \A j \in PoppedInputVolumes(c) : j <= k].volume_db

\* C11 witness: every block has run, everything accepted has been drained,
\* and among it two SetInputVolume messages of different values for one
\* channel and a third message.
C11_Witness ==
  /\ control_queue = <<>>
  /\ popped >= 3
  /\ blocks_left = 0
  /\ \E c \in InputChannels : \E j, k \in PoppedInputVolumes(c) :
        j < k /\ accepted[j].volume_db # accepted[k].volume_db

\* C12: a callback that began after quit() had returned does not return
\* Continue: once out of its drain it has returned Control::Quit, whether or
\* not the Quit message found room in the control queue.
C12_QuitWithinOneBlock ==
  begun_after_quit => (ph_pc = "drain" \/ (ph_pc = "quit" /\ ph_return = "Quit"))

\* C12 witness: the control queue was full when quit() ran, no Quit message
\* was ever accepted, and the callback begun afterwards drained the 64
\* pending messages and returned Quit.
C12_Witness ==
  /\ begun_after_quit
  /\ ph_return = "Quit"
  /\ popped = CONTROL_RING_BUFFER_SIZE
  /\ sent_full >= 2
  /\ \A k \in 1..Len(accepted) : accepted[k].type # "Quit"

\* C13: once App, and with it the AudioEngine handle, has been dropped, the
\* quit flag is set, whichever way App::run was left.
C13_DropAlwaysQuits ==
  app_pc = "exited" => quit_flag

\* C13 witness: main_loop returned Ok, restoring the terminal failed, so run
\* returned the error before its own quit(); the handle has been dropped and
\* no Quit message has reached the engine.
C13_Witness ==
  /\ app_pc = "exited"
  /\ main_loop_result = "Ok"
  /\ run_result = "Err"
  /\ quit_flag
  /\ \A k \in 1..popped : accepted[k].type # "Quit"
  /\ Cardinality({ k \in 1..Len(accepted) : accepted[k].type = "Quit" }) <= 1

\* the index of msg is one a channel of its kind has
InRange(msg) ==
  IF msg.type \in { "SetInputVolume", "ToggleInputMute", "ToggleInputSolo" }
  THEN msg.channel < Len(ph_mixer_state.inputs)
  ELSE IF msg.type \in { "SetOutputVolume", "ToggleOutputMute" }
  THEN msg.channel < Len(ph_mixer_state.outputs)
  ELSE TRUE

\* C14: popping a message whose channel index is out of range changes nothing
\* in the engine's MixerState and leaves the callback in its drain, which ends
\* only on an empty queue; the MixerState is what the popped messages of valid
\* index alone give, and a block that drained such a message returns Continue
\* with the mix of that state in the output buffers.
C14_OutOfRangeIgnored ==
  /\ [](ph_mixer_state =
          ApplyAll(EngineStart, SelectSeq(SubSeq(accepted, 1, popped), InRange)))
  /\ [](BlockDone =>
          \A o \in OutputChannels : \A q \in PortsOf(OutputState(o)) :
             OutBuffer(o, q) =
               MixOf([ch \in InputChannels |-> get_input_effective_gain(ph_mixer_state, ch)],
                     o, q))
  /\ [][(popped' = popped + 1 /\ ~InRange(Head(control_queue))) =>
          /\ ph_mixer_state' = ph_mixer_state
          /\ control_queue' = Tail(control_queue)
          /\ ph_pc' = "drain"
          /\ ph_return' = ph_return]_vars
  /\ [][(ph_pc = "drain" /\ ph_pc' # "drain") =>
          (control_queue = <<>> /\ ph_pc' = "idle" /\ ph_return' = "Continue")]_vars

\* C14 witness: a block drained a message of index out of range and then one
\* of valid index, which took effect, and returned Continue with a signal in
\* the outputs.
C14_Witness ==
  /\ BlockDone
  /\ blocks_left = ClientBlocks - 1
  /\ popped = 2
  /\ ~InRange(accepted[1])
  /\ InRange(accepted[2])
  /\ ph_mixer_state # EngineStart
  /\ \E o \in OutputChannels : compute_peak(OutBuffer(o, 0)) > 0

\* the peaks of the two ports of a channel, 0 for a port it has not
InputPeaks(ch) ==
  [p \in 1..2 |-> IF p <= InputState(ch).port_count
                  THEN compute_peak(InBuffer(ch, p - 1)) ELSE 0]
OutputPeaks(ch) ==
  [p \in 1..2 |-> IF p <= OutputState(ch).port_count
                  THEN compute_peak(OutBuffer(ch, p - 1)) ELSE 0]

\* what a block measures, in the flat index space: the input channels in
\* configured order, then the output channels
MeasuredMeters ==
  LET num_inputs == Len(ph_mixer_state.inputs)
  IN  [k \in 1..(num_inputs + Len(ph_mixer_state.outputs)) |->
         IF k <= num_inputs
         THEN MeterData(k - 1, InputPeaks(k - 1), InputState(k - 1).port_count)
         ELSE MeterData(k - 1, OutputPeaks(k - 1 - num_inputs),
                        OutputState(k - 1 - num_inputs).port_count)]

\* the output buffers hold the mix of the inputs at the engine's gains
OutputsAreMixed ==
  \A o \in OutputChannels : \A q \in PortsOf(OutputState(o)) :
     OutBuffer(o, q) =
       MixOf([ch \in InputChannels |-> get_input_effective_gain(ph_mixer_state, ch)],
             o, q)

\* a callback returns from a mixed block
BlockEnds == ph_pc = "drain" /\ ph_pc' = "idle"

\* C15: the meter queue never holds more than 1024 samples; a block appends
\* the samples it measured as long as there is room and discards the rest,
\* leaving the queued ones as they were, in order, and whatever was discarded
\* the block is mixed in full and returns Continue.
C15_MeterOverflowDiscards ==
  /\ [](Len(meter_queue) <= METER_RING_BUFFER_SIZE)
  /\ [][BlockEnds =>
          /\ meter_queue' =
               meter_queue \o
               SubSeq(MeasuredMeters', 1,
                      Min(METER_RING_BUFFER_SIZE - Len(meter_queue), Len(MeasuredMeters')))
          /\ OutputsAreMixed'
          /\ ph_return' = "Continue"]_vars

\* the samples the blocks so far have pushed or tried to push
MetersMeasured == (FillBlocks + MeterBlocks - blocks_left) * Len(MeasuredMeters)

\* C15 witness: the supervisor never ran; the queue holds 1024 samples, a whole
\* block at least has been discarded, and that block left a signal in the
\* outputs.
C15_Witness ==
  /\ BlockDone
  /\ app_pc = "new"
  /\ Len(meter_queue) = METER_RING_BUFFER_SIZE
  /\ MetersMeasured >= METER_RING_BUFFER_SIZE + Len(MeasuredMeters)
  /\ \E o \in OutputChannels : compute_peak(OutBuffer(o, 0)) > 0

\* C16: the output buffers of a finished block are the mix of that block's
\* input samples at the gains the control messages popped so far give, and
\* of nothing else: not of how many samples the meter queue holds, nor of
\* whether the supervisor has drained it.
C16_MixIgnoresMeterQueue ==
  BlockDone =>
    /\ ph_mixer_state = ApplyAll(EngineStart, SubSeq(accepted, 1, popped))
    /\ OutputsAreMixed

\* C16 witness: the meter queue overflowed, the supervisor then drained it, and
\* the block after that left the same signal in the outputs.
C16_Witness ==
  /\ BlockDone
  /\ app_pc = "main_loop"
  /\ MetersMeasured > METER_RING_BUFFER_SIZE
  /\ Len(meter_queue) = Len(MeasuredMeters)
  /\ \E o \in OutputChannels : compute_peak(OutBuffer(o, 0)) > 0

\* C17 as stated: a callback that has begun returns, Continue or Quit,
\* whatever the supervisor does meanwhile.
C17_AsStated == (ph_pc = "drain") ~> (ph_pc # "drain" /\ ph_return \in { "Continue", "Quit" })

\* what does hold: a callback that has begun returns unless the supervisor
\* sends again and again without end.
ReturnsUnlessFlooded ==
  []<><<LiveSend>>_vars \/ ((ph_pc = "drain") ~> (ph_pc # "drain"))

\* the flat meter index space: the input channels, then the output channels
FlatIndices == 0..(Len(ph_mixer_state.inputs) + Len(ph_mixer_state.outputs) - 1)

\* the supervisor's channel a flat index stands for
FlatChannel(k) ==
  IF k < Len(app_mixer_state.inputs) THEN app_mixer_state.inputs[k + 1]
  ELSE app_mixer_state.outputs[k - Len(app_mixer_state.inputs) + 1]

\* the queued samples published under a flat index, by position
MetersFor(k) == { n \in 1..Len(meter_queue) : meter_queue[n].channel_index = k }
LastMeterFor(k) ==
  meter_queue[CHOOSE n \in MetersFor(k) : \A m \in MetersFor(k) : m <= n]

\* a frame of main_loop empties the meter queue
FrameDrains == app_pc = "main_loop" /\ meter_queue # <<>> /\ meter_queue' = <<>>

\* C18: the engine publishes what it measured on input channel i under index
\* i and what it measured on output channel j under index num_inputs + j,
\* every queued index is below num_inputs + num_outputs, and a frame that
\* drains the queue shows on each supervisor channel the last sample queued
\* under that channel's flat index and leaves the meters of a channel with no
\* sample queued as they were.
C18_FlatMeterIndex ==
  /\ [](\A n \in 1..Len(meter_queue) :
          /\ meter_queue[n].channel_index \in FlatIndices
          /\ meter_queue[n].port_count =
               FlatChannel(meter_queue[n].channel_index).port_count)
  /\ [][BlockEnds =>
          meter_queue' =
            meter_queue \o
            SubSeq(MeasuredMeters', 1,
                   Min(METER_RING_BUFFER_SIZE - Len(meter_queue), Len(MeasuredMeters')))]_vars
  /\ [][FrameDrains =>
          \A k \in FlatIndices :
             IF MetersFor(k) = {}
             THEN /\ FlatChannel(k)'.current_peaks = FlatChannel(k).current_peaks
                  /\ FlatChannel(k)'.peak_hold = FlatChannel(k).peak_hold
                  /\ FlatChannel(k)'.peak_hold_time = FlatChannel(k).peak_hold_time
             ELSE \A p \in 1..FlatChannel(k).port_count :
                     FlatChannel(k)'.current_peaks[p] = LastMeterFor(k).peaks[p]]_vars

\* C18 witness: a frame has drained the samples of a block with a signal on
\* every port, and every supervisor channel shows the peaks the engine
\* measured on the channel of the same position, inputs and outputs, which
\* differ from channel to channel.
C18_Witness ==
  /\ BlockDone
  /\ meter_queue = <<>>
  /\ Len(app_mixer_state.inputs) >= 2
  /\ \A i \in InputChannels :
        /\ app_mixer_state.inputs[i + 1].current_peaks = InputPeaks(i)
        /\ InputPeaks(i)[1] > 0
  /\ \A j \in OutputChannels :
        /\ app_mixer_state.outputs[j + 1].current_peaks = OutputPeaks(j)
        /\ OutputPeaks(j)[1] > 0
  /\ \A k, l \in FlatIndices :
        k # l => FlatChannel(k).current_peaks # FlatChannel(l).current_peaks

\* the peaks a block can measure on a port here, and one above them all
TestPeaks == { <<a, b>> : a, b \in { 0, 1, 3, 6, 12, 50 } }

\* C19: as long as at most the hold duration has elapsed since
\* peak_hold_time[i], update_meter does not lower peak_hold[i], whatever
\* peak it is given, and so no step of the supervisor lowers a hold inside
\* its window.
C19_HoldKeptInWindow ==
  /\ [](\A k \in FlatIndices : \A peaks \in TestPeaks :
          \A i \in 1..FlatChannel(k).port_count :
             now - FlatChannel(k).peak_hold_time[i] <= PEAK_HOLD_DURATION =>
               update_meter(FlatChannel(k), peaks, PEAK_HOLD_DURATION, now).peak_hold[i]
                 >= FlatChannel(k).peak_hold[i])
  /\ [][\A k \in FlatIndices : \A i \in 1..FlatChannel(k).port_count :
          now - FlatChannel(k).peak_hold_time[i] <= PEAK_HOLD_DURATION =>
            FlatChannel(k)'.peak_hold[i] >= FlatChannel(k).peak_hold[i]]_vars

\* C19 witness: the first input shows silence, measured after its peak, and
\* still holds the peak, exactly the hold duration after the hold was set.
C19_Witness ==
  /\ meter_queue = <<>>
  /\ FlatChannel(0).current_peaks[1] = 0
  /\ FlatChannel(0).peak_hold[1] = compute_peak(Signal[1])
  /\ FlatChannel(0).peak_hold[1] > 0
  /\ now - FlatChannel(0).peak_hold_time[1] = PEAK_HOLD_DURATION

\* a frame of main_loop drains a single sample of channel k
SingleUpdate(k) == FrameDrains /\ Cardinality(MetersFor(k)) = 1

\* C20: given a peak below the hold more than the hold duration after
\* peak_hold_time[i], update_meter makes the peak the hold and sets
\* peak_hold_time[i] to now; a frame that brings silence one second after
\* the peak was held leaves the hold, one that brings it six seconds after
\* sets the hold to 0.
C20_HoldDecays ==
  /\ [](\A k \in FlatIndices : \A peaks \in TestPeaks :
          \A i \in 1..FlatChannel(k).port_count :
             LET after == update_meter(FlatChannel(k), peaks, PEAK_HOLD_DURATION, now)
             IN  (/\ peaks[i] < FlatChannel(k).peak_hold[i]
                  /\ now - FlatChannel(k).peak_hold_time[i] > PEAK_HOLD_DURATION)
                 => (after.peak_hold[i] = peaks[i] /\ after.peak_hold_time[i] = now))
  /\ [][\A k \in FlatIndices : \A i \in 1..FlatChannel(k).port_count :
          (/\ SingleUpdate(k)
           /\ LastMeterFor(k).peaks[i] = 0
           /\ FlatChannel(k).peak_hold[i] > 0)
          => /\ now - FlatChannel(k).peak_hold_time[i] = 1 =>
                  /\ FlatChannel(k)'.peak_hold[i] = FlatChannel(k).peak_hold[i]
                  /\ FlatChannel(k)'.peak_hold_time[i] = FlatChannel(k).peak_hold_time[i]
             /\ now - FlatChannel(k).peak_hold_time[i] = 6 =>
                  /\ FlatChannel(k)'.peak_hold[i] = 0
                  /\ FlatChannel(k)'.peak_hold_time[i] = now]_vars

\* C20 witness: the signal of the first block has been shown and every later
\* block was silent; more than the hold duration after the start the hold of
\* the first input is 0 and its timer was reset in this very second.
C20_Witness ==
  /\ meter_queue = <<>>
  /\ blocks_left < PeakBlocks
  /\ now > PEAK_HOLD_DURATION
  /\ FlatChannel(0).current_peaks[1] = 0
  /\ FlatChannel(0).peak_hold[1] = 0
  /\ FlatChannel(0).peak_hold_time[1] = now

\* the channels of a configuration, both directions
ConfiguredChannels ==
  { config.inputs[i] : i \in 1..Len(config.inputs) } \cup
  { config.outputs[i] : i \in 1..Len(config.outputs) }

\* the defects C21 names: an empty name, no port or more than two ports on
\* some channel, no input channel, no output channel
Malformed ==
  \/ Len(config.inputs) = 0
  \/ Len(config.outputs) = 0
  \/ \E c \in ConfiguredChannels : c.name = "" \/ c.ports = 0 \/ c.ports > 2

EngineConstructed == ph_pc # "absent"

\* C21: a malformed configuration makes Config::load return the error, and
\* no AudioEngine is ever constructed from it.
C21_MalformedRejected ==
  /\ [](Malformed => ~EngineConstructed /\ app_pc \in { "load", "rejected" })
  /\ [][(app_pc = "load" /\ Malformed) => app_pc' = "rejected"]_vars

\* C21 witness: a file whose only defect is a channel of three ports has
\* been rejected.
C21_Witness ==
  /\ app_pc = "rejected"
  /\ ~EngineConstructed
  /\ config.client_name # ""
  /\ Len(config.inputs) > 0 /\ Len(config.outputs) > 0
  /\ \A c \in ConfiguredChannels : c.name # "" /\ c.ports > 0
  /\ \E c \in ConfiguredChannels : c.ports > 2

\* C22 as stated: no engine is constructed from a configuration with an
\* initial volume outside [-60 dB, 12 dB].
C22_AsStated ==
  EngineConstructed =>
    \A c \in ConfiguredChannels :
       c.volume_db # None =>
         (VOLUME_MIN_DB <= c.volume_db[1] /\ c.volume_db[1] <= VOLUME_MAX_DB)

\* the volume a channel is configured with, as App::new clamps it
ConfiguredVolume(c) == Clamp(c.volume_db[1], VOLUME_MIN_DB, VOLUME_MAX_DB)

\* C23 as stated: in every block mixed before any user command, the first
\* after activation included, a channel configured with an initial volume
\* has that volume in the engine.
C23_AsStated ==
  (BlockDone /\ keys_left = MaxKeys) =>
    /\ \A i \in 1..Len(config.inputs) :
          config.inputs[i].volume_db # None =>
            ph_mixer_state.inputs[i].volume_db = ConfiguredVolume(config.inputs[i])
    /\ \A i \in 1..Len(config.outputs) :
          config.outputs[i].volume_db # None =>
            ph_mixer_state.outputs[i].volume_db = ConfiguredVolume(config.outputs[i])

\* C24: when a block is mixed, every message accepted so far, and so every
\* message accepted before the block began, has been popped and applied,
\* and all the output ports of the block are mixed from that one state.
C24_DrainedBeforeMix ==
  [][BlockEnds =>
       /\ popped = Len(accepted)
       /\ ph_mixer_state = ApplyAll(EngineStart, accepted)
       /\ ph_mixer_state' = ph_mixer_state
       /\ OutputsAreMixed']_vars

\* C24 witness: a solo and another message were accepted and drained by the
\* block just mixed, which carries the soloed input and silences another.
C24_Witness ==
  /\ BlockDone
  /\ popped = Len(accepted)
  /\ popped >= 2
  /\ \E k \in 1..popped : accepted[k].type = "ToggleInputSolo"
  /\ \E a, b \in InputChannels :
        /\ InputState(a).soloed /\ ~InputState(b).soloed
        /\ Audible(a)
        /\ compute_peak(InBuffer(b, 0)) > 0
  /\ \E o \in OutputChannels : compute_peak(OutBuffer(o, 0)) > 0

\* a callback leaves its control drain
DrainEnds == ph_pc = "drain" /\ ph_pc' # "drain"

\* C25: a callback that finds the quit flag set after its drain returns
\* Control::Quit and leaves every output buffer and the meter queue as they
\* were.
C25_QuitSkipsTheBlock ==
  [][(DrainEnds /\ quit_flag) =>
       /\ ph_return' = "Quit"
       /\ out_ports' = out_ports
       /\ meter_queue' = meter_queue]_vars

\* C25 witness: the callback returned Quit on a block with a signal on its
\* inputs; the output buffers still hold what they held before any block,
\* and no sample was ever published.
C25_Witness ==
  /\ ph_pc = "quit"
  /\ ph_return = "Quit"
  /\ in_ports = Signal
  /\ out_ports = [k \in 1..NumOutputPorts |-> StaleBlock]
  /\ meter_queue = <<>>
  /\ blocks_left = MaxBlocks - 1

\* C26 as stated, for a signal that is not silence: update_meter given a
\* peak greater than or equal to the hold makes it the hold and sets
\* peak_hold_time[i] to now.
C26_AsStated ==
  \A k \in FlatIndices : \A peaks \in TestPeaks :
     \A i \in 1..FlatChannel(k).port_count :
        LET after == update_meter(FlatChannel(k), peaks, PEAK_HOLD_DURATION, now)
        IN  (peaks[i] > 0 /\ peaks[i] >= FlatChannel(k).peak_hold[i])
            => (after.peak_hold[i] = peaks[i] /\ after.peak_hold_time[i] = now)

\* C27 as stated: a frame of main_loop leaves the meter queue empty, and the
\* current_peaks and peak_hold of every channel that had a sample queued are
\* what update_meter gives for the last of its samples alone.
C27_AsStated ==
  [][app_pc = "main_loop" /\ app_mixer_state' # app_mixer_state =>
       /\ meter_queue' = <<>>
       /\ \A k \in FlatIndices :
             MetersFor(k) # {} =>
               LET last == update_meter(FlatChannel(k), LastMeterFor(k).peaks,
                                        PEAK_HOLD_DURATION, now)
               IN  /\ FlatChannel(k)'.current_peaks = last.current_peaks
                   /\ FlatChannel(k)'.peak_hold = last.peak_hold]_vars

\* the largest absolute value among the samples of a buffer, 0 if it is empty
MaxAbs(samples) ==
  LET values == { Abs(samples[i]) : i \in 1..Len(samples) } \cup { 0 }
  IN  CHOOSE m \in values : \A v \in values : v <= m

\* the samples of the block that ended last, while none of them was drained
\* or discarded
LastBlockMeters ==
  SubSeq(meter_queue, Len(meter_queue) - Len(MeasuredMeters) + 1, Len(meter_queue))

\* C28: the sample a block publishes for an input channel carries, for each
\* of its ports, the largest absolute value of that port's input samples,
\* whatever the volume, mute and solo settings of any channel.
C28_InputPeakIsSource ==
  [][(BlockEnds /\ Len(meter_queue') = Len(meter_queue) + Len(MeasuredMeters')) =>
       \A ch \in InputChannels :
          /\ LastBlockMeters'[ch + 1].channel_index = ch
          /\ \A p \in PortsOf(InputState(ch)) :
                LastBlockMeters'[ch + 1].peaks[p + 1] = MaxAbs(in_ports'[
                  Sum([c \in { d \in InputChannels : d < ch } |-> InputState(c).port_count])
                  + p + 1])]_vars

\* C28 witness: a block was mixed with one input muted and another silenced
\* by a solo; both reported the peak of their source signal.
C28_Witness ==
  /\ BlockDone
  /\ Len(meter_queue) >= Len(MeasuredMeters)
  /\ \E a, b \in InputChannels :
        /\ InputState(a).muted
        /\ ~InputState(b).muted /\ ~InputState(b).soloed /\ any_input_soloed(ph_mixer_state)
        /\ LastBlockMeters[a + 1].peaks[1] = MaxAbs(InBuffer(a, 0))
        /\ LastBlockMeters[b + 1].peaks[1] = MaxAbs(InBuffer(b, 0))
        /\ MaxAbs(InBuffer(a, 0)) > 0 /\ MaxAbs(InBuffer(b, 0)) > 0

\* C29: the sample a block publishes for an output channel carries, for each
\* of its ports, the largest absolute value of the port's buffer as the block
\* leaves it, every input summed in; the buffers of a muted output channel
\* are all zero and its published peaks are 0.
C29_OutputPeakIsPostMix ==
  [][(BlockEnds /\ Len(meter_queue') = Len(meter_queue) + Len(MeasuredMeters')) =>
       /\ OutputsAreMixed'
       /\ \A o \in OutputChannels :
             LET meter == LastBlockMeters'[Len(ph_mixer_state.inputs) + o + 1]
             IN  /\ meter.channel_index = Len(ph_mixer_state.inputs) + o
                 /\ \A q \in PortsOf(OutputState(o)) :
                       /\ meter.peaks[q + 1] = MaxAbs(OutBuffer(o, q)')
                       /\ OutputState(o).muted =>
                             /\ \A n \in 1..Len(OutBuffer(o, q)') : OutBuffer(o, q)'[n] = 0
                             /\ meter.peaks[q + 1] = 0]_vars

\* C29 witness: a block with a signal was mixed into a muted output channel
\* and an open one; the muted one reported 0, the open one the peak of its
\* mix.
C29_Witness ==
  /\ BlockDone
  /\ Len(meter_queue) >= Len(MeasuredMeters)
  /\ \E a \in InputChannels :
        MaxAbs(InBuffer(a, 0)) > 0 /\ get_input_effective_gain(ph_mixer_state, a) > 0
  /\ \E o, r \in OutputChannels :
        /\ OutputState(o).muted
        /\ LastBlockMeters[Len(ph_mixer_state.inputs) + o + 1].peaks[1] = 0
        /\ ~OutputState(r).muted
        /\ LastBlockMeters[Len(ph_mixer_state.inputs) + r + 1].peaks[1] = MaxAbs(OutBuffer(r, 0))
        /\ MaxAbs(OutBuffer(r, 0)) > 0

\* the ports the loops of process step through: every channel's port_count
InputPortsStepped  == Sum([ch \in InputChannels  |-> input_port_counts[ch + 1]])
OutputPortsStepped == Sum([ch \in OutputChannels |-> output_port_counts[ch + 1]])

\* C30: with the engine constructed, whatever control messages it has taken,
\* the loops of process stay in bounds: the channel index below the number
\* of channel states, the peak slot below 2, and the running port indices,
\* which end a block at the number of ports stepped through, below the
\* number of registered input and output ports.
C30_IndicesInBounds ==
  EngineConstructed =>
    /\ Len(input_port_counts) = Len(ph_mixer_state.inputs)
    /\ Len(output_port_counts) = Len(ph_mixer_state.outputs)
    /\ \A ch \in InputChannels : input_port_counts[ch + 1] <= 2
    /\ \A ch \in OutputChannels : output_port_counts[ch + 1] <= 2
    /\ InputPortsStepped <= Len(in_ports)
    /\ OutputPortsStepped <= Len(out_ports)
    /\ LET b == mix_block(ph_mixer_state, in_ports, out_ports)
       IN  /\ b.in_port_idx = InputPortsStepped
           /\ b.out_port_idx = OutputPortsStepped
           /\ Len(b.meters) = Len(ph_mixer_state.inputs) + Len(ph_mixer_state.outputs)

\* C30 witness: a block was mixed for a mono and a stereo input and a stereo
\* output, after a control message for a channel that does not exist.
C30_Witness ==
  /\ BlockDone
  /\ popped = 1
  /\ ~InRange(accepted[1])
  /\ Len(in_ports) = 3
  /\ Len(out_ports) = 2
  /\ in_ports = Signal

\* the meter fields of the supervisor's channels, in flat index order
MeterFields(ms) ==
  [k \in 1..(Len(ms.inputs) + Len(ms.outputs)) |->
     LET ch == IF k <= Len(ms.inputs) THEN ms.inputs[k] ELSE ms.outputs[k - Len(ms.inputs)]
     IN  << ch.current_peaks, ch.peak_hold, ch.peak_hold_time >>]

\* the samples given to update_meter one after the other, the first first,
\* each once
RECURSIVE ApplyMeters(_, _, _)
ApplyMeters(ms, meters, t) ==
  IF meters = <<>> THEN ms
  ELSE LET m == Head(meters)
           next == IF m.channel_index < Len(ms.inputs)
                   THEN [ms EXCEPT !.inputs[m.channel_index + 1] =
                                     update_meter(@, m.peaks, PEAK_HOLD_DURATION, t)]
                   ELSE [ms EXCEPT !.outputs[m.channel_index - Len(ms.inputs) + 1] =
                                     update_meter(@, m.peaks, PEAK_HOLD_DURATION, t)]
       IN  ApplyMeters(next, Tail(meters), t)

\* C31: the callback only appends to the meter queue, one sample a channel
\* and block, behind the samples of earlier blocks; a frame of main_loop
\* takes every queued sample, oldest first and each once, so that a
\* channel's samples are applied in the order of their blocks, and leaves
\* the queue empty.
C31_MetersInOrder ==
  /\ [][BlockEnds =>
          /\ Len(meter_queue') >= Len(meter_queue)
          /\ SubSeq(meter_queue', 1, Len(meter_queue)) = meter_queue
          /\ \A m, n \in (Len(meter_queue) + 1)..Len(meter_queue') :
                m < n => meter_queue'[m].channel_index < meter_queue'[n].channel_index]_vars
  /\ [][(~BlockEnds /\ meter_queue' # meter_queue) =>
          /\ app_pc = "main_loop"
          /\ meter_queue' = <<>>
          /\ MeterFields(app_mixer_state') =
               MeterFields(ApplyMeters(app_mixer_state, meter_queue, now))]_vars

\* C31 witness: a frame has taken the samples of a block with a signal and
\* of a later silent block: the first input shows the silence of the later
\* block and holds the peak of the earlier one.
C31_Witness ==
  /\ meter_queue = <<>>
  /\ blocks_left = 0
  /\ BlockDone
  /\ in_ports = Silence
  /\ FlatChannel(0).current_peaks[1] = 0
  /\ FlatChannel(0).peak_hold[1] = compute_peak(Signal[1])
  /\ FlatChannel(0).peak_hold[1] > 0

\* C32: no output channel is soloed, in the supervisor's copy or in the
\* engine's; with an output channel selected the solo key leaves App and the
\* control queue as they are, and a ToggleInputSolo applied by the engine
\* leaves every output channel as it is.
C32_NoOutputSoloed ==
  /\ \A j \in 1..Len(app_mixer_state.outputs) : ~app_mixer_state.outputs[j].soloed
  /\ \A j \in 1..Len(ph_mixer_state.outputs) : ~ph_mixer_state.outputs[j].soloed
  /\ selection_type = "Output" =>
       /\ toggle_solo(AppState) = AppState
       /\ handle_key(AppState, "s") = AppState
  /\ \A c \in 0..Len(ph_mixer_state.inputs) :
        apply_control(ph_mixer_state, ToggleInputSolo(c)).outputs = ph_mixer_state.outputs

\* C32 witness: the solo key was pressed on an input and the engine has
\* applied the message and mixed a block with it; an output channel is
\* selected now and every key has been handled.
C32_Witness ==
  /\ BlockDone
  /\ selection_type = "Output"
  /\ keys_left = 0
  /\ \E i \in InputChannels : InputState(i).soloed
  /\ \E i \in InputChannels : app_mixer_state.inputs[i + 1].soloed

\* the field of a channel a message names, and the value it is to have
\* after the message, given the channel before
NamedField(msg) ==
  IF msg.type \in { "SetInputVolume", "SetOutputVolume" } THEN "volume_db"
  ELSE IF msg.type \in { "ToggleInputMute", "ToggleOutputMute" } THEN "muted"
  ELSE "soloed"
NamedValue(msg, ch) ==
  IF msg.type \in { "SetInputVolume", "SetOutputVolume" } THEN msg.volume_db
  ELSE IF msg.type \in { "ToggleInputMute", "ToggleOutputMute" } THEN ~ch.muted
  ELSE ~ch.soloed

\* channel after is channel before but for the field msg names
OnlyNamedFieldSet(msg, before, after) ==
  /\ after[NamedField(msg)] = NamedValue(msg, before)
  /\ \A f \in DOMAIN before : f # NamedField(msg) => after[f] = before[f]
  /\ DOMAIN after = DOMAIN before

\* a message is popped and applied
Pops == popped' = popped + 1

\* C33: the engine's channels are those of the configuration, in its order, in
\* every reachable state, and popping a message for channel c sets the one
\* field the message names on channel c of the kind it names and changes
\* nothing else in the engine's MixerState.
C33_OnlyNamedFieldChanges ==
  /\ [](/\ Len(ph_mixer_state.inputs) = Len(config.inputs)
        /\ Len(ph_mixer_state.outputs) = Len(config.outputs)
        /\ \A i \in 1..Len(config.inputs) :
              ph_mixer_state.inputs[i].name = config.inputs[i].name
        /\ \A j \in 1..Len(config.outputs) :
              ph_mixer_state.outputs[j].name = config.outputs[j].name)
  /\ [][Pops =>
          LET msg == Head(control_queue)
              to_input  == msg.type \in { "SetInputVolume", "ToggleInputMute",
                                          "ToggleInputSolo" }
              to_output == msg.type \in { "SetOutputVolume", "ToggleOutputMute" }
          IN  /\ DOMAIN ph_mixer_state' = DOMAIN ph_mixer_state
              /\ Len(ph_mixer_state'.inputs) = Len(ph_mixer_state.inputs)
              /\ Len(ph_mixer_state'.outputs) = Len(ph_mixer_state.outputs)
              /\ \A i \in 1..Len(ph_mixer_state.inputs) :
                    IF to_input /\ i = msg.channel + 1
                    THEN OnlyNamedFieldSet(msg, ph_mixer_state.inputs[i],
                                           ph_mixer_state'.inputs[i])
                    ELSE ph_mixer_state'.inputs[i] = ph_mixer_state.inputs[i]
              /\ \A j \in 1..Len(ph_mixer_state.outputs) :
                    IF to_output /\ j = msg.channel + 1
                    THEN OnlyNamedFieldSet(msg, ph_mixer_state.outputs[j],
                                           ph_mixer_state'.outputs[j])
                    ELSE ph_mixer_state'.outputs[j] = ph_mixer_state.outputs[j]]_vars

\* C33 witness: a mute toggle and then a volume for the first input have been
\* popped: the channel is muted at the volume sent, and nothing else differs
\* from the engine's first MixerState.
C33_Witness ==
  /\ popped = 2
  /\ control_queue = <<>>
  /\ accepted = << ToggleInputMute(0), SetInputVolume(0, 7) >>
  /\ ph_mixer_state =
       [EngineStart EXCEPT !.inputs[1].muted = TRUE, !.inputs[1].volume_db = 7]

\* a callback leaves its drain and returns
CallbackReturns == ph_pc = "drain" /\ ph_pc' # "drain"

\* C34: the quit flag is false until quit() is called, by App::run or by
\* Drop; no step clears it, a second quit() leaves it set, and a callback
\* that returns while it is set returns Control::Quit.
C34_QuitFlagMonotonic ==
  /\ [](quit_flag => app_pc \in { "drop", "exited" })
  /\ [](quit_flag => quit(AppState).quit_flag)
  /\ [][quit_flag => quit_flag']_vars
  /\ [][(app_pc = "drop" /\ app_pc' = "exited") => (quit_flag /\ quit_flag')]_vars
  /\ [][(CallbackReturns /\ quit_flag) => (ph_return' = "Quit" /\ ph_pc' = "quit")]_vars

\* C34 witness: run called quit() and Drop called it again; a callback that
\* began with a key's message and the Quit messages queued has popped them
\* and returned Control::Quit.
C34_Witness ==
  /\ app_pc = "exited"
  /\ quit_flag
  /\ ph_return = "Quit"
  /\ popped >= 3
  /\ accepted[popped] = Quit
  /\ accepted[popped - 1] = Quit
  /\ accepted[1] # Quit

\* the selection of a is a channel its selected section has
SelectionInRange(a) ==
  a.selected_channel <
    (IF a.selection_type = "Input" THEN Len(a.mixer_state.inputs)
     ELSE Len(a.mixer_state.outputs))

\* msg addresses the channel a has selected, by the kind of its section
ForSelection(a, msg) ==
  /\ msg.channel = a.selected_channel
  /\ IF a.selection_type = "Input"
     THEN msg.type \in { "SetInputVolume", "ToggleInputMute", "ToggleInputSolo" }
     ELSE msg.type \in { "SetOutputVolume", "ToggleOutputMute" }

\* C35: the supervisor's selection is a channel of the selected section in
\* every reachable state, and whatever key is handled next it still is;
\* every message a key handler sends addresses the selected channel by the
\* kind of its section, and every message accepted so far has an index in
\* range for its kind.
C35_SelectionInRange ==
  /\ SelectionInRange(AppState)
  /\ \A code \in KeyCodes :
        LET after == handle_key(AppState, code)
        IN  /\ SelectionInRange(after)
            /\ \A k \in (Len(accepted) + 1)..Len(after.accepted) :
                  ForSelection(AppState, after.accepted[k])
  /\ \A k \in 1..Len(accepted) : InRange(accepted[k])

\* C35 witness: Left at the first input wrapped the selection to the last of
\* two outputs, and the mute key then sent a message for that output.
C35_Witness ==
  /\ keys_left = 0
  /\ selection_type = "Output"
  /\ selected_channel = 1
  /\ Len(app_mixer_state.outputs) = 2
  /\ accepted # <<>>
  /\ accepted[Len(accepted)] = ToggleOutputMute(1)

\* C36: after a block that returned Continue, the one port of a mono output
\* holds, of every input channel, port 0 alone at the channel's effective
\* gain times the output's gain: the right port of a stereo input is not in
\* the sum.
C36_StereoToMonoTakesLeft ==
  BlockDone =>
    \A o \in OutputChannels :
       OutputState(o).port_count = 1 =>
          OutBuffer(o, 0) =
            [i \in 1..Len(OutBuffer(o, 0)) |->
               Sum([ch \in InputChannels |->
                      InBuffer(ch, 0)[i]
                      * get_input_effective_gain(ph_mixer_state, ch)
                      * OutputGain(o)])]

\* C36 witness: a stereo input alone was heard on a mono output, its right
\* port carrying a louder signal than its left; the output's peak is that of
\* the left port at the two gains.
C36_Witness ==
  /\ BlockDone
  /\ \E ch \in InputChannels : \E o \in OutputChannels :
        /\ InputState(ch).port_count = 2 /\ OutputState(o).port_count = 1
        /\ get_input_effective_gain(ph_mixer_state, ch) > 0 /\ OutputGain(o) > 0
        /\ \A c \in InputChannels \ {ch} : get_input_effective_gain(ph_mixer_state, c) = 0
        /\ compute_peak(InBuffer(ch, 1)) > compute_peak(InBuffer(ch, 0))
        /\ compute_peak(InBuffer(ch, 0)) > 0
        /\ compute_peak(OutBuffer(o, 0)) =
             compute_peak(InBuffer(ch, 0))
             * get_input_effective_gain(ph_mixer_state, ch) * OutputGain(o)

\* the hold of every port of ch is at least the current peak, and the slots
\* of ports ch does not have are as ChannelState::new at time 0 left them
HoldCoversPeak(ch) ==
  \A i \in 1..2 :
     IF i <= ch.port_count
     THEN ch.peak_hold[i] >= ch.current_peaks[i]
     ELSE ch.current_peaks[i] = 0 /\ ch.peak_hold[i] = 0 /\ ch.peak_hold_time[i] = 0

\* C37: on every channel of the supervisor, in every reachable state,
\* peak_hold[i] >= current_peaks[i] for the ports the channel has and the
\* other slots hold their initial values; and whatever peaks update_meter is
\* given there, the same is true after the call, the other slots being
\* those of before.
C37_HoldAtLeastPeak ==
  \A k \in FlatIndices :
     /\ HoldCoversPeak(FlatChannel(k))
     /\ \A peaks \in TestPeaks :
           LET after == update_meter(FlatChannel(k), peaks, PEAK_HOLD_DURATION, now)
           IN  /\ HoldCoversPeak(after)
               /\ \A i \in 1..2 :
                     i > FlatChannel(k).port_count =>
                       /\ after.current_peaks[i] = FlatChannel(k).current_peaks[i]
                       /\ after.peak_hold[i] = FlatChannel(k).peak_hold[i]
                       /\ after.peak_hold_time[i] = FlatChannel(k).peak_hold_time[i]

\* C37 witness: a mono channel was shown a peak after the clock had moved and
\* then silence: its hold is above its current peak, and its second slot is
\* as it was built.
C37_Witness ==
  /\ meter_queue = <<>>
  /\ \E k \in FlatIndices :
        /\ FlatChannel(k).port_count = 1
        /\ FlatChannel(k).peak_hold_time[1] > 0
        /\ FlatChannel(k).peak_hold[1] > FlatChannel(k).current_peaks[1]
        /\ FlatChannel(k).current_peaks[2] = 0
        /\ FlatChannel(k).peak_hold[2] = 0
        /\ FlatChannel(k).peak_hold_time[2] = 0

\* the number of channels, inputs and outputs
NumChannels == Len(ph_mixer_state.inputs) + Len(ph_mixer_state.outputs)

\* a callback returns Control::Continue after its last push
LastPush == ph_pc = "publish" /\ ph_pc' = "idle"

\* C38 as stated: a block that returns Continue has made one push per
\* channel, and those that were kept are the first ones: no sample of the
\* block is kept after one of the block was dropped.
C38_AsStated ==
  [][LastPush =>
       /\ Len(push_results') = NumChannels
       /\ \A j, k \in 1..Len(push_results') :
             (j < k /\ push_results'[k] = "Ok") => push_results'[j] = "Ok"]_vars

\* C38: a block that returns Continue makes one push per channel, the k-th
\* for flat index k - 1, inputs then outputs; each push is kept exactly when
\* the meter queue has a free slot at that moment and is dropped otherwise;
\* between the pushes of a block the queue can only get shorter, so a queue
\* with room for the rest of a block's samples takes all of them.
C38_KeptWhileRoom ==
  /\ [][(ph_pc = "publish" /\ push_results' # push_results) =>
          LET k == Len(push_results) + 1
          IN  /\ push_results' = Append(push_results, push_results'[k])
              /\ k <= NumChannels
              /\ BlockMeters[k].channel_index = k - 1
              /\ IF Len(meter_queue) < METER_RING_BUFFER_SIZE
                 THEN /\ meter_queue' = Append(meter_queue, BlockMeters[k])
                      /\ push_results'[k] = "Ok"
                 ELSE /\ meter_queue' = meter_queue
                      /\ push_results'[k] = "Full"
              /\ (ph_pc' = "idle") <=> (k = NumChannels)
              /\ (ph_pc' = "idle") => (ph_return' = "Continue")]_vars
  /\ [][(ph_pc = "publish" /\ push_results' = push_results) =>
          (ph_pc' = "publish" /\ Len(meter_queue') <= Len(meter_queue))]_vars
  /\ [](BlockDone => Len(push_results) = NumChannels)

\* C38 witness: a block found the meter queue full at its first push; the
\* supervisor drained the queue before the block's later pushes, which were
\* kept.
C38_Witness ==
  /\ BlockDone
  /\ push_results[1] = "Full"
  /\ \A k \in 2..Len(push_results) : push_results[k] = "Ok"
  /\ Len(meter_queue) = NumChannels - 1
  /\ meter_queue[1].channel_index = 1

\* C39: for every input channel of the engine's MixerState, whatever the
\* mute and solo flags and volumes of the inputs, the gain the callback
\* computes inline equals get_input_effective_gain: 0 exactly when the
\* channel is muted or some input is soloed and the channel is not, and
\* otherwise the linear gain of its volume; the block is mixed at that gain.
C39_InlineGainIsEffectiveGain ==
  /\ \A ch \in InputChannels :
        LET inline == input_gain(InputState(ch), any_input_soloed(ph_mixer_state))
            silenced ==
              \/ InputState(ch).muted
              \/ /\ ~InputState(ch).soloed
                 /\ \E c \in InputChannels \ {ch} : InputState(c).soloed
        IN  /\ inline = get_input_effective_gain(ph_mixer_state, ch)
            /\ (inline = 0) <=> silenced
            /\ ~silenced => inline = db_to_linear(InputState(ch).volume_db)
  /\ BlockDone => OutputsAreMixed

\* C39 witness: a block was mixed with one input soloed and muted and the
\* other neither: both gains are 0 by either computation and the outputs
\* are silent though the inputs carry a signal.
C39_Witness ==
  /\ BlockDone
  /\ in_ports = Signal
  /\ \E a, b \in InputChannels :
        /\ InputState(a).soloed /\ InputState(a).muted
        /\ ~InputState(b).soloed /\ ~InputState(b).muted
        /\ get_input_effective_gain(ph_mixer_state, a) = 0
        /\ input_gain(InputState(b), any_input_soloed(ph_mixer_state)) = 0
  /\ \A o \in OutputChannels : compute_peak(OutBuffer(o, 0)) = 0

=============================================================================
